---- MODULE Spec2Model ----
(***************************************************************************)
(* A model of the openherd "cow" node: envelope validation, the in-memory  *)
(* index mirrored to the sled store, the karma voting state machine, the   *)
(* sync engine between two nodes and the peer monitor.                     *)
(* Strings whose characters the code inspects (ids, store keys, karma      *)
(* codes) are sequences of one-character strings.  Option<T> is a sequence *)
(* of length at most one: None is << >> and Some(x) is << x >>.            *)
(***************************************************************************)
EXTENDS Integers, Sequences, FiniteSets, TLC

VARIABLES
    s,      \* the AppState behind the mutex (state.rs), a record of its fields
    db,     \* the contents of the sled database ./data : key -> bytes
    now,    \* the wall clock read by Utc::now(), in seconds
    last,   \* the last request that was served with success
    remote,     \* the node the sync target names: its AppState and its store
    sync_task,  \* the sync request being served: its position and its locals
    monitor,    \* the peer_monitor task: its position and its locals
    lock,       \* the task that holds the mutex of s, or "none"
    labels_json \* the contents of the file ./labels.json, None while absent

\* the variables of the sync engine and of the peer monitor
net == << remote, sync_task, monitor, lock >>

vars == << s, db, now, last, remote, sync_task, monitor, lock, labels_json >>

None == << >>
Some(x) == << x >>
IsSome(o) == o # << >>

(***************************************************************************)
(* Bounds of the model.                                                    *)
(***************************************************************************)
MaxTime == 1      \* the clock runs over 0..MaxTime
MaxCount == 1     \* largest count of a code generation request
MaxScore == 1     \* votes are explored while every |score| stays within it
MaxBatch == 2     \* longest array posted to inbox or pulled by sync
MaxReports == 2   \* longest report queue

(***************************************************************************)
(* Characters.                                                             *)
(***************************************************************************)
HexDigits == {"0", "1", "2", "3", "4", "5", "6", "7", "8", "9",
              "a", "b", "c", "d", "e", "f", "A", "B", "C", "D", "E", "F"}

Whitespace == {" ", "\t", "\n"}

is_ascii_hexdigit(c) == c \in HexDigits

to_lowercase_char(c) ==
    CASE c = "A" -> "a" [] c = "B" -> "b" [] c = "C" -> "c"
      [] c = "D" -> "d" [] c = "E" -> "e" [] c = "F" -> "f"
      [] c = "P" -> "p" [] c = "Q" -> "q" [] c = "X" -> "x"
      [] OTHER -> c

to_uppercase_char(c) ==
    CASE c = "a" -> "A" [] c = "b" -> "B" [] c = "c" -> "C"
      [] c = "d" -> "D" [] c = "e" -> "E" [] c = "f" -> "F"
      [] c = "p" -> "P" [] c = "q" -> "Q" [] c = "x" -> "X"
      [] OTHER -> c

to_lowercase(str) == [i \in 1..Len(str) |-> to_lowercase_char(str[i])]

to_uppercase(str) == [i \in 1..Len(str) |-> to_uppercase_char(str[i])]

starts_with(str, prefix) ==
    /\ Len(str) >= Len(prefix)
    /\ \A i \in 1..Len(prefix) : str[i] = prefix[i]

trim_is_empty(str) == \A i \in 1..Len(str) : str[i] \in Whitespace

(***************************************************************************)
(* Envelopes and posts (types.rs).  An armored text is modelled by what    *)
(* the validator asks of it: whether it is empty, whether it contains the  *)
(* armor header, and what the OpenPGP parser makes of it.                  *)
(***************************************************************************)
FutureTolerance == 300     \* chrono::Duration::minutes(5), in seconds

LatScale == 10000          \* coordinates are held in 1/10000 of a degree

\* the fingerprint of a parsed public key, as hex::encode renders it
fingerprint(key) ==
    CASE key = "KA" -> << "a", "1" >>
      [] key = "KB" -> << "b", "2" >>
      [] key = "KC" -> << "c", "3" >>

KeyText(key) == [empty |-> FALSE, header |-> TRUE, parsed |-> Some(key)]

PostJson(id, text, date) ==
    [empty |-> FALSE,
     json |-> Some([id |-> id, text |-> text, latitude |-> 33 * LatScale,
                    longitude |-> -84 * LatScale, date |-> date])]

SigText(key, data) ==
    [empty |-> FALSE, header |-> TRUE,
     parsed |-> Some([signer |-> key, over |-> data])]

SignedEnvelope(key, id, data) ==
    [signature |-> SigText(key, data), public_key |-> KeyText(key),
     id |-> id, data |-> data]

EnvA1 == SignedEnvelope("KA", << "a", "1" >>,
                        PostJson(<< "a", "1" >>, << "h", "i" >>, 0))

\* the same key signs a second payload: same id, different data
EnvA2 == SignedEnvelope("KA", << "a", "1" >>,
                        PostJson(<< "a", "1" >>, << "y", "o" >>, 0))

EnvB1 == SignedEnvelope("KB", << "b", "2" >>,
                        PostJson(<< "b", "2" >>, << "h", "i" >>, 0))

\* key KA claims the id of KB
EnvMismatch == SignedEnvelope("KA", << "b", "2" >>,
                              PostJson(<< "b", "2" >>, << "h", "i" >>, 0))

\* dated one second past the tolerance of clock 0
EnvLate == SignedEnvelope("KC", << "c", "3" >>,
                          PostJson(<< "c", "3" >>, << "h", "i" >>, FutureTolerance + 1))

\* key KA with its fingerprint written in upper case, in the envelope and
\* in the post alike
EnvUpper == SignedEnvelope("KA", << "A", "1" >>,
                           PostJson(<< "A", "1" >>, << "h", "i" >>, 0))

\* a post of key KC dated at clock 0
EnvC1 == SignedEnvelope("KC", << "c", "3" >>,
                        PostJson(<< "c", "3" >>, << "h", "i" >>, 0))

EnvelopeSamples == {EnvA1, EnvA2, EnvB1, EnvMismatch, EnvLate}

(***************************************************************************)
(* validation.rs                                                           *)
(***************************************************************************)
validate_envelope_structure(envelope) ==
    IF envelope.signature.empty THEN "InvalidSignature"
    ELSE IF envelope.public_key.empty THEN "InvalidPublicKey"
    ELSE IF Len(envelope.id) = 0 THEN "IdMismatch"
    ELSE IF envelope.data.empty THEN "InvalidPostData"
    ELSE IF ~envelope.signature.header THEN "InvalidSignature"
    ELSE IF ~envelope.public_key.header THEN "InvalidPublicKey"
    ELSE IF ~(\A i \in 1..Len(envelope.id) : is_ascii_hexdigit(envelope.id[i]))
         THEN "IdMismatch"
    ELSE "Ok"

verify_signature(signature_armored, data, public_key) ==
    IF ~IsSome(signature_armored.parsed) THEN "PgpError"
    ELSE IF \/ signature_armored.parsed[1].signer # public_key
            \/ signature_armored.parsed[1].over # data
         THEN "PgpError"
    ELSE "Ok"

\* faulty variant: the bounds of the coordinates and of the date are open
validate_post_open_bounds(post, t) ==
    IF trim_is_empty(post.text) THEN "InvalidPostData"
    ELSE IF post.latitude <= -90 * LatScale \/ post.latitude >= 90 * LatScale
         THEN "InvalidPostData"
    ELSE IF post.longitude <= -180 * LatScale \/ post.longitude >= 180 * LatScale
         THEN "InvalidPostData"
    ELSE IF post.date >= t + FutureTolerance THEN "InvalidPostData"
    ELSE "Ok"

validate_post(post, t) ==
    IF trim_is_empty(post.text) THEN "InvalidPostData"
    ELSE IF post.latitude < -90 * LatScale \/ post.latitude > 90 * LatScale
         THEN "InvalidPostData"
    ELSE IF post.longitude < -180 * LatScale \/ post.longitude > 180 * LatScale
         THEN "InvalidPostData"
    ELSE IF post.date > t + FutureTolerance THEN "InvalidPostData"
    ELSE "Ok"

\* "Ok" when the envelope validates at clock t, otherwise the error kind
validate_envelope(envelope, t) ==
    IF validate_envelope_structure(envelope) # "Ok"
    THEN validate_envelope_structure(envelope)
    ELSE IF ~IsSome(envelope.public_key.parsed) THEN "PgpError"
    ELSE LET public_key == envelope.public_key.parsed[1] IN
         IF to_lowercase(fingerprint(public_key)) # to_lowercase(envelope.id)
         THEN "IdMismatch"
         ELSE IF verify_signature(envelope.signature, envelope.data, public_key) # "Ok"
         THEN "PgpError"
         ELSE IF ~IsSome(envelope.data.json) THEN "JsonError"
         ELSE LET post == envelope.data.json[1] IN
              IF post.id # envelope.id THEN "InvalidPostData"
              ELSE validate_post(post, t)

(***************************************************************************)
(* HashMap helpers: a map is a function whose domain is its key set.       *)
(***************************************************************************)
EmptyMap == << >>

MapInsert(m, k, v) == [x \in (DOMAIN m) \cup {k} |-> IF x = k THEN v ELSE m[x]]

MapRemove(m, k) == [x \in (DOMAIN m) \ {k} |-> m[x]]

MapGet(m, k) == IF k \in DOMAIN m THEN Some(m[k]) ELSE None

(***************************************************************************)
(* state.rs                                                                *)
(***************************************************************************)
AppState_new ==
    [memory |-> EmptyMap, peers |-> EmptyMap,
     karma_codes |-> EmptyMap, karma_votes |-> EmptyMap,
     moderation_reports |-> << >>, post_labels |-> EmptyMap,
     label_definitions |-> EmptyMap, admin_passwords |-> << >>]

is_admin(st, password) ==
    \E i \in 1..Len(st.admin_passwords) : st.admin_passwords[i] = password

(***************************************************************************)
(* The karma engine (handlers.rs).  Every operator takes the AppState st   *)
(* and returns the AppState after the call with the HTTP status.           *)
(***************************************************************************)
\* ten characters as rand's Alphanumeric distribution can sample them
RawSamples ==
    { << "a", "A", "a", "a", "a", "b", "b", "b", "b", "B" >>,
      << "x", "1", "x", "1", "x", "q", "2", "q", "2", "q" >> }

format_code(raw) == SubSeq(raw, 1, 5) \o << "-" >> \o SubSeq(raw, 6, 10)

CodeSamples == { format_code(to_uppercase(r)) : r \in RawSamples }

ExpiresSamples == {0}

Directions == {"upvote", "downvote"}

Passwords == {"pw", "bad"}

PostIds == { e.id : e \in EnvelopeSamples }

Max(a, b) == IF a >= b THEN a ELSE b

RECURSIVE generate_loop(_, _, _, _)
\* the for loop of admin_generate_karma_codes from iteration i on
generate_loop(codes, req, raws, i) ==
    IF i > Len(raws) THEN codes
    ELSE LET code == format_code(to_uppercase(raws[i]))
             kc == [code |-> code, issuer |-> req.issuer, vote_type |-> None,
                    expires |-> req.expires, region |-> req.region,
                    current_post |-> None, used_direction |-> None]
         IN generate_loop(MapInsert(codes, code, kc), req, raws, i + 1)

\* password is the X-Admin-Password header (None when missing); raws are the
\* random strings drawn by the max(count, 1) iterations
admin_generate_karma_codes(st, password, req, raws) ==
    IF ~IsSome(password) THEN [s |-> st, status |-> 401, out |-> << >>]
    ELSE IF ~is_admin(st, password[1]) THEN [s |-> st, status |-> 401, out |-> << >>]
    ELSE [s |-> [st EXCEPT !.karma_codes = generate_loop(@, req, raws, 1)],
          status |-> 200,
          out |-> [i \in 1..Len(raws) |-> format_code(to_uppercase(raws[i]))]]

admin_generate_karma_codes_text(st, password, req, raws) ==
    IF ~IsSome(password) THEN [s |-> st, status |-> 401, out |-> << >>]
    ELSE IF ~is_admin(st, password[1]) THEN [s |-> st, status |-> 401, out |-> << >>]
    ELSE [s |-> [st EXCEPT !.karma_codes = generate_loop(@, req, raws, 1)],
          status |-> 200,
          out |-> << req.issuer >> \o
                  [i \in 1..Len(raws) |-> format_code(to_uppercase(raws[i]))]]

\* faulty variant: the first use does not set vote_type
record_vote_leaving_type(st, code, envelope, direction) ==
    LET post_id == envelope.id
        delta == IF direction = "upvote" THEN 1 ELSE -1
        score == IF post_id \in DOMAIN st.karma_votes
                 THEN st.karma_votes[post_id] ELSE 0
    IN [s |-> [st EXCEPT !.karma_codes[code] =
                            [@ EXCEPT !.current_post = Some(post_id),
                                      !.used_direction = Some(direction)],
                         !.karma_votes = MapInsert(@, post_id, score + delta)],
        status |-> 200]

\* the update of a vote that passed every check
record_vote(st, code, envelope, direction) ==
    LET post_id == envelope.id
        delta == IF direction = "upvote" THEN 1 ELSE -1
        codes == IF code \in DOMAIN st.karma_codes
                 THEN [st.karma_codes EXCEPT ![code] =
                         [@ EXCEPT !.current_post = Some(post_id),
                                   !.used_direction = Some(direction),
                                   !.vote_type = IF IsSome(@) THEN @
                                                 ELSE Some(direction)]]
                 ELSE st.karma_codes
        score == IF post_id \in DOMAIN st.karma_votes
                 THEN st.karma_votes[post_id] ELSE 0
    IN [s |-> [st EXCEPT !.karma_codes = codes,
                         !.karma_votes = MapInsert(@, post_id, score + delta)],
        status |-> 200]

\* faulty variant: a spent code is not refused
apply_karma_ignoring_spent(st, karma_code, code, envelope, direction, t) ==
    IF karma_code.expires < t THEN [s |-> st, status |-> 410]
    ELSE IF IsSome(karma_code.vote_type) /\ karma_code.vote_type[1] # direction
         THEN [s |-> st, status |-> 400]
    ELSE record_vote(st, code, envelope, direction)

\* faulty variant: the direction is not compared with vote_type
apply_karma_ignoring_lock(st, karma_code, code, envelope, direction, t) ==
    IF karma_code.expires < t THEN [s |-> st, status |-> 410]
    ELSE IF IsSome(karma_code.current_post) THEN [s |-> st, status |-> 409]
    ELSE record_vote(st, code, envelope, direction)

\* faulty variant: the spent check comes before the expiry check
apply_karma_spent_first(st, karma_code, code, envelope, direction, t) ==
    IF IsSome(karma_code.current_post) THEN [s |-> st, status |-> 409]
    ELSE IF karma_code.expires < t THEN [s |-> st, status |-> 410]
    ELSE IF IsSome(karma_code.vote_type) /\ karma_code.vote_type[1] # direction
         THEN [s |-> st, status |-> 400]
    ELSE record_vote(st, code, envelope, direction)

\* faulty variant: a vote in the wrong direction is recorded before the 400
apply_karma_recording_mismatch(st, karma_code, code, envelope, direction, t) ==
    IF karma_code.expires < t THEN [s |-> st, status |-> 410]
    ELSE IF IsSome(karma_code.current_post) THEN [s |-> st, status |-> 409]
    ELSE IF IsSome(karma_code.vote_type) /\ karma_code.vote_type[1] # direction
         THEN [s |-> record_vote(st, code, envelope, direction).s, status |-> 400]
    ELSE record_vote(st, code, envelope, direction)

apply_karma_internal(st, karma_code, code, envelope, direction, t) ==
    IF karma_code.expires < t THEN [s |-> st, status |-> 410]
    ELSE IF IsSome(karma_code.current_post) THEN [s |-> st, status |-> 409]
    ELSE IF IsSome(karma_code.vote_type) /\ karma_code.vote_type[1] # direction
         THEN [s |-> st, status |-> 400]
    ELSE record_vote(st, code, envelope, direction)

karma_vote(st, code, envelope, direction, t) ==
    IF code \notin DOMAIN st.karma_codes THEN [s |-> st, status |-> 404]
    ELSE IF validate_envelope(envelope, t) # "Ok" THEN [s |-> st, status |-> 400]
    ELSE apply_karma_internal(st, st.karma_codes[code], code, envelope, direction, t)

karma_upvote(st, code, envelope, t) == karma_vote(st, code, envelope, "upvote", t)

karma_downvote(st, code, envelope, t) == karma_vote(st, code, envelope, "downvote", t)

\* faulty variant: the revoke clears the code and leaves the score as it is
karma_revoke_keeping_score(st, code) ==
    IF code \notin DOMAIN st.karma_codes THEN [s |-> st, status |-> 404]
    ELSE [s |-> [st EXCEPT !.karma_codes[code] =
                     [@ EXCEPT !.current_post = None, !.used_direction = None]],
          status |-> 200]

\* faulty variant: the revoke of a code that is not spent is refused
karma_revoke_refusing_unspent(st, code) ==
    IF code \notin DOMAIN st.karma_codes THEN [s |-> st, status |-> 404]
    ELSE IF ~IsSome(st.karma_codes[code].current_post) THEN [s |-> st, status |-> 409]
    ELSE karma_revoke_keeping_score(st, code)

karma_revoke(st, code) ==
    IF code \notin DOMAIN st.karma_codes THEN [s |-> st, status |-> 404]
    ELSE LET karma_code == st.karma_codes[code]
             direction == IF IsSome(karma_code.used_direction)
                          THEN karma_code.used_direction[1]
                          ELSE IF IsSome(karma_code.vote_type)
                          THEN karma_code.vote_type[1]
                          ELSE "upvote"
             delta == IF direction = "upvote" THEN -1 ELSE 1
             votes == IF /\ IsSome(karma_code.current_post)
                         /\ karma_code.current_post[1] \in DOMAIN st.karma_votes
                      THEN [st.karma_votes EXCEPT ![karma_code.current_post[1]] = @ + delta]
                      ELSE st.karma_votes
         IN [s |-> [st EXCEPT !.karma_votes = votes,
                              !.karma_codes[code] =
                                  [@ EXCEPT !.current_post = None,
                                            !.used_direction = None]],
             status |-> 200]

karma_lookup(st, post_ids) ==
    [i \in 1..Len(post_ids) |->
        IF post_ids[i] \in DOMAIN st.karma_votes
        THEN st.karma_votes[post_ids[i]] ELSE 0]

(***************************************************************************)
(* The sled store and process start (main.rs).  A stored value is the JSON *)
(* text serde_json wrote: an array of strings for the admin passwords, an  *)
(* object with the wire field names for an envelope.                       *)
(***************************************************************************)
Ascii ==
    << "\t", "\n", " ", "-", "0", "1", "2", "3", "4", "5", "6", "7", "8", "9", ":",
       "A", "B", "C", "D", "E", "F", "P", "Q", "X", "_",
       "a", "b", "c", "d", "e", "f", "h", "i", "m", "n", "o", "p", "q", "r",
       "s", "t", "w", "x", "y" >>

\* the byte order of characters, which is the order of sled's keys
Ord(c) == CHOOSE i \in 1..Len(Ascii) : Ascii[i] = c

RECURSIVE KeyLess(_, _)
KeyLess(a, b) ==
    IF Len(b) = 0 THEN FALSE
    ELSE IF Len(a) = 0 THEN TRUE
    ELSE IF a[1] # b[1] THEN Ord(a[1]) < Ord(b[1])
    ELSE KeyLess(Tail(a), Tail(b))

AdminKey == << "_", "_", "a", "d", "m", "i", "n", "_", "p", "a", "s", "s",
               "w", "o", "r", "d", "s", "_", "_" >>

PostPrefix == << "p", "o", "s", "t", ":" >>

\* serde_json::to_vec(&envelope): public_key is written as publicKey
envelope_to_vec(envelope) ==
    [kind |-> "object",
     fields |-> [signature |-> envelope.signature,
                 publicKey |-> envelope.public_key,
                 id |-> envelope.id, data |-> envelope.data]]

passwords_to_vec(passwords) == [kind |-> "array", items |-> passwords]

\* serde_json::from_slice::<Envelope>(bytes), None when it fails
envelope_from_slice(bytes) ==
    IF bytes.kind # "object" THEN None
    ELSE IF ~({"signature", "publicKey", "id", "data"} \subseteq DOMAIN bytes.fields)
         THEN None
    ELSE Some([signature |-> bytes.fields.signature,
               public_key |-> bytes.fields.publicKey,
               id |-> bytes.fields.id, data |-> bytes.fields.data])

\* serde_json::from_slice::<Vec<String>>(bytes), None when it fails
passwords_from_slice(bytes) ==
    IF bytes.kind = "array" THEN Some(bytes.items) ELSE None

load_admin_passwords(st, store) ==
    IF AdminKey \in DOMAIN store /\ IsSome(passwords_from_slice(store[AdminKey]))
    THEN [st EXCEPT !.admin_passwords = passwords_from_slice(store[AdminKey])[1]]
    ELSE st

MinKey(keys) == CHOOSE k \in keys : \A o \in keys \ {k} : KeyLess(k, o)

RECURSIVE rehydrate(_, _, _)
\* the loop over s.db.iter(): keys is what is left to visit, in key order
rehydrate(st, store, keys) ==
    IF keys = {} THEN [s |-> st, db |-> store]
    ELSE LET k == MinKey(keys)
             v == store[k]
         IN IF ~starts_with(k, PostPrefix) THEN rehydrate(st, store, keys \ {k})
            ELSE IF IsSome(envelope_from_slice(v))
            THEN rehydrate([st EXCEPT !.memory =
                                MapInsert(@, envelope_from_slice(v)[1].id,
                                          envelope_from_slice(v)[1])],
                           store, keys \ {k})
            ELSE rehydrate(st, MapRemove(store, k), keys \ {k})

\* main() with the Serve command, up to the label file: a fresh AppState,
\* the admin passwords, then the rehydration of the index from the store
main_serve(store) ==
    rehydrate(load_admin_passwords(AppState_new, store), store, DOMAIN store)

\* the store after `enroll-admin pw` ran on an empty ./data
EnrolledStore == MapInsert(EmptyMap, AdminKey, passwords_to_vec(<< "pw" >>))


(***************************************************************************)
(* Inbox and the local half of sync (handlers.rs).  The outcome of the     *)
(* store calls is an input: the inserts of the first ok_inserts envelopes  *)
(* of the array succeed and the later ones return Err, and flush_ok tells  *)
(* whether the flush succeeds.                                             *)
(***************************************************************************)
db_insert(store, key, bytes, ok) == IF ok THEN MapInsert(store, key, bytes) ELSE store

\* flush writes the tree to disk and changes none of its entries
db_flush(store, ok) == store

RECURSIVE inbox_loop(_, _, _, _, _)
\* the for loop of inbox from position i on: acc carries the state, the store,
\* the imported count and the number of validation errors
inbox_loop(acc, envelopes, t, ok_inserts, i) ==
    IF i > Len(envelopes) THEN acc
    ELSE LET envelope == envelopes[i] IN
         IF validate_envelope(envelope, t) = "Ok"
         THEN inbox_loop(
                [s |-> [acc.s EXCEPT !.memory = MapInsert(@, envelope.id, envelope)],
                 db |-> db_insert(acc.db, envelope.id, envelope_to_vec(envelope),
                                  i <= ok_inserts),
                 imported_count |-> acc.imported_count + 1,
                 errors |-> acc.errors],
                envelopes, t, ok_inserts, i + 1)
         ELSE inbox_loop([acc EXCEPT !.errors = @ + 1],
                         envelopes, t, ok_inserts, i + 1)

inbox(st, store, envelopes, t, ok_inserts, flush_ok) ==
    LET r == inbox_loop([s |-> st, db |-> store, imported_count |-> 0, errors |-> 0],
                        envelopes, t, ok_inserts, 1)
    IN IF r.imported_count = 0 /\ r.errors # 0
       THEN [s |-> r.s, db |-> r.db, status |-> 400]
       ELSE [s |-> r.s, db |-> db_flush(r.db, flush_ok), status |-> 200]

RECURSIVE sync_insert_loop(_, _, _, _, _)
\* the loop of sync over the decoded remote outbox
sync_insert_loop(acc, incoming, t, ok_inserts, i) ==
    IF i > Len(incoming) THEN acc
    ELSE LET env == incoming[i] IN
         IF validate_envelope(env, t) = "Ok"
         THEN sync_insert_loop(
                [s |-> [acc.s EXCEPT !.memory = MapInsert(@, env.id, env)],
                 db |-> db_insert(acc.db, env.id, envelope_to_vec(env),
                                  i <= ok_inserts)],
                incoming, t, ok_inserts, i + 1)
         ELSE sync_insert_loop(acc, incoming, t, ok_inserts, i + 1)

\* sync from the decoded pull to the flush, the section under the lock
sync_pull(st, store, incoming, t, ok_inserts, flush_ok) ==
    LET r == sync_insert_loop([s |-> st, db |-> store], incoming, t, ok_inserts, 1)
    IN [s |-> r.s, db |-> db_flush(r.db, flush_ok)]

\* GET /outbox: the envelopes of the index, in no order
outbox(st) == { st.memory[id] : id \in DOMAIN st.memory }

(***************************************************************************)
(* Peer addresses.  An address is modelled by what Url::parse makes of it: *)
(* None when it does not parse, else its scheme, its host and its path.    *)
(* A base URL, the key of the peer registry, is the same triple after      *)
(* Url::as_str and trim_end_matches('/').                                  *)
(***************************************************************************)
AddressText(scheme, host, path) ==
    [parsed |-> Some([scheme |-> scheme, host |-> host, path |-> path])]

AddrB == AddressText("http", "b", << >>)             \* http://b
AddrBSlash == AddressText("http", "b", << "/" >>)    \* http://b/
AddrC == AddressText("https", "c", << >>)            \* https://c
AddrFtp == AddressText("ftp", "b", << >>)            \* ftp://b
AddrJunk == [parsed |-> None]                        \* not a URL

Addresses == {AddrB, AddrBSlash, AddrC, AddrFtp, AddrJunk}

\* Url::as_str writes an http(s) URL that has no path with the path "/"
url_as_str(url) == [url EXCEPT !.path = IF @ = << >> THEN << "/" >> ELSE @]

RECURSIVE trim_end_matches(_, _)
trim_end_matches(str, c) ==
    IF Len(str) > 0 /\ str[Len(str)] = c
    THEN trim_end_matches(SubSeq(str, 1, Len(str) - 1), c)
    ELSE str

\* the base URL sync derives from the address, None when it rejects it
sync_base(address) ==
    IF ~IsSome(address.parsed) THEN None
    ELSE IF address.parsed[1].scheme \notin {"http", "https"} THEN None
    ELSE Some([url_as_str(address.parsed[1]) EXCEPT
                  !.path = trim_end_matches(@, "/")])

BaseA == [scheme |-> "http", host |-> "a", path |-> << >>]
BaseB == [scheme |-> "http", host |-> "b", path |-> << >>]
BaseC == [scheme |-> "https", host |-> "c", path |-> << >>]

\* the URL of a route of the node at base
route_url(base, route) == [base EXCEPT !.path = trim_end_matches(@, "/") \o route]

OutboxRoute == << "/", "_openherd", "/", "outbox" >>

(***************************************************************************)
(* The peer registry (state.rs) and its two writers: the last block of     *)
(* sync (handlers.rs) and the loop body of peer_monitor (main.rs).         *)
(***************************************************************************)
PeerStatus(failures, last_ok) == [failures |-> failures, last_ok |-> last_ok]

FailureLimit == 5      \* if p.failures >= 5

U8Max == 255           \* failures is a u8

SnapshotLimit == 2     \* take(10_000), scaled to the envelopes of the model

saturating_add(a, b) == IF a + b > U8Max THEN U8Max ELSE a + b

is_success(status) == status >= 200 /\ status <= 299

\* faulty variant: the entry keeps its failure count
sync_register_keeping_failures(st, base, t) ==
    IF base \in DOMAIN st.peers
    THEN [st EXCEPT !.peers[base].last_ok = Some(t)]
    ELSE [st EXCEPT !.peers = MapInsert(@, base, PeerStatus(0, Some(t)))]

\* s.peers.entry(base).and_modify(..).or_insert(..) at clock t
sync_register(st, base, t) ==
    IF base \in DOMAIN st.peers
    THEN [st EXCEPT !.peers[base] = PeerStatus(0, Some(t))]
    ELSE [st EXCEPT !.peers = MapInsert(@, base, PeerStatus(0, Some(t)))]

\* faulty variant: a failed probe is counted and never reaps the peer
monitor_update_never_reaping(st, addr, ok, t) ==
    IF ok /\ addr \in DOMAIN st.peers
    THEN [st EXCEPT !.peers[addr] = PeerStatus(0, Some(t))]
    ELSE IF addr \in DOMAIN st.peers
    THEN [st EXCEPT !.peers[addr].failures = saturating_add(@, 1)]
    ELSE st

\* faulty variant: a good probe is recorded under the URL that was probed
monitor_update_keyed_by_url(st, addr, ok, t) ==
    IF ok
    THEN [st EXCEPT !.peers = MapInsert(@, route_url(addr, OutboxRoute),
                                        PeerStatus(0, Some(t)))]
    ELSE IF addr \in DOMAIN st.peers
    THEN IF saturating_add(st.peers[addr].failures, 1) >= FailureLimit
         THEN [st EXCEPT !.peers = MapRemove(@, addr)]
         ELSE [st EXCEPT !.peers[addr].failures = saturating_add(@, 1)]
    ELSE st

\* faulty variant: the peer is reaped one failure later
monitor_update_reaping_late(st, addr, ok, t) ==
    IF ok
    THEN IF addr \in DOMAIN st.peers
         THEN [st EXCEPT !.peers[addr] = PeerStatus(0, Some(t))]
         ELSE [st EXCEPT !.peers = MapInsert(@, addr, PeerStatus(0, Some(t)))]
    ELSE IF addr \in DOMAIN st.peers
    THEN IF saturating_add(st.peers[addr].failures, 1) > FailureLimit
         THEN [st EXCEPT !.peers = MapRemove(@, addr)]
         ELSE [st EXCEPT !.peers[addr].failures = saturating_add(@, 1)]
    ELSE st

\* the loop body of peer_monitor under the lock, for the probe result ok
monitor_update(st, addr, ok, t) ==
    IF ok
    THEN IF addr \in DOMAIN st.peers
         THEN [st EXCEPT !.peers[addr] = PeerStatus(0, Some(t))]
         ELSE [st EXCEPT !.peers = MapInsert(@, addr, PeerStatus(0, Some(t)))]
    ELSE IF addr \in DOMAIN st.peers
    THEN IF saturating_add(st.peers[addr].failures, 1) >= FailureLimit
         THEN [st EXCEPT !.peers = MapRemove(@, addr)]
         ELSE [st EXCEPT !.peers[addr].failures = saturating_add(@, 1)]
    ELSE st

(***************************************************************************)
(* HTTP between nodes.  A reply is a network error or a response with a    *)
(* status and a body; the body of an outbox is Some(array) when it decodes *)
(* as Vec<Envelope>.                                                       *)
(***************************************************************************)
NetworkError == [kind |-> "error", status |-> 0, body |-> None]

Response(status, body) == [kind |-> "response", status |-> status, body |-> body]

\* the sequences without repetition of n elements of the set S
RECURSIVE Arrangements(_, _)
Arrangements(S, n) ==
    IF n = 0 \/ S = {} THEN { << >> }
    ELSE UNION { { << x >> \o rest : rest \in Arrangements(S \ {x}, n - 1) } : x \in S }

Min(a, b) == IF a < b THEN a ELSE b

\* faulty variant: the snapshot stops one envelope short
Snapshots_one_short(st) ==
    Arrangements(outbox(st), Min(SnapshotLimit, Cardinality(outbox(st))) - 1)

\* s.memory.values().take(10_000): HashMap order is arbitrary
Snapshots(st) == Arrangements(outbox(st), Min(SnapshotLimit, Cardinality(outbox(st))))

\* what GET {base}/_openherd/outbox can answer: node b serves its index,
\* the server at c an empty array
OutboxReplies(base, node) ==
    {NetworkError, Response(500, None), Response(204, None), Response(200, None)}
    \cup { Response(200, Some(body)) :
             body \in IF base.host = "b"
                      THEN Arrangements(outbox(node.s), Cardinality(outbox(node.s)))
                      ELSE { << >> } }

(***************************************************************************)
(* The sync handler between its suspension points (handlers.rs).  The task *)
(* record holds the position of the handler and its locals; pull_status    *)
(* and push_status keep the status of the two requests, 0 before a         *)
(* response arrived.  start is a history field: the envelopes the two      *)
(* nodes held when the request arrived, None once another request wrote    *)
(* an index while the sync ran or after it.                                *)
(***************************************************************************)
IdleTask ==
    [pc |-> "idle", base |-> None, body |-> None, incoming |-> << >>,
     posts_to_send |-> << >>, pull_status |-> 0, push_status |-> 0,
     inserted |-> FALSE, ok |-> FALSE, start |-> None]

\* faulty variant: every response says ok = false
sync_response_never_ok(task, ok) ==
    [task EXCEPT !.pc = "done", !.body = None, !.incoming = << >>,
                 !.posts_to_send = << >>, !.ok = FALSE]

\* the handler returns Json(SyncResponse { ok, .. }) and its locals are dropped
sync_response(task, ok) ==
    [task EXCEPT !.pc = "done", !.body = None, !.incoming = << >>,
                 !.posts_to_send = << >>, !.ok = ok]

\* from the request to the GET of the remote outbox
sync_request(address) ==
    IF ~IsSome(sync_base(address))
    THEN sync_response(IdleTask, FALSE)
    ELSE [IdleTask EXCEPT !.pc = "get", !.base = sync_base(address)]

\* client.get(..).send().await returned reply
sync_get_returns(task, reply) ==
    IF reply.kind = "error" THEN sync_response(task, FALSE)
    ELSE IF reply.status # 200
    THEN sync_response([task EXCEPT !.pull_status = reply.status], FALSE)
    ELSE [task EXCEPT !.pc = "decode", !.pull_status = reply.status,
                      !.body = reply.body]

\* resp.json().await returned
sync_decode_returns(task) ==
    IF ~IsSome(task.body) THEN sync_response(task, FALSE)
    ELSE [task EXCEPT !.pc = "insert", !.incoming = task.body[1], !.body = None]

\* faulty variant: a push that failed is taken for a push that passed
sync_post_returns_ignoring_errors(task, reply) ==
    [task EXCEPT !.pc = "register", !.push_status = reply.status,
                 !.posts_to_send = << >>]

\* client.post(..).json(..).send().await returned reply
sync_post_returns(task, reply) ==
    IF reply.kind = "error" THEN sync_response(task, FALSE)
    ELSE IF reply.status # 200
    THEN sync_response([task EXCEPT !.push_status = reply.status], FALSE)
    ELSE [task EXCEPT !.pc = "register", !.push_status = reply.status,
                      !.posts_to_send = << >>]

\* faulty variant: the guard is still alive at the next suspension point
drop_guard_late(holder) == holder

\* the MutexGuard goes out of scope
drop_guard(holder) == "none"

(***************************************************************************)
(* The peer_monitor task (main.rs): peers is what the for loop has left to *)
(* visit, addr the peer being probed and ok the result of its probe.       *)
(***************************************************************************)
SleepingMonitor == [pc |-> "sleep", peers |-> << >>, addr |-> None, ok |-> FALSE]

\* the head of the for loop: the next peer is probed, or the round ends
monitor_next(peers) ==
    IF peers = << >> THEN SleepingMonitor
    ELSE [pc |-> "probe", peers |-> Tail(peers), addr |-> Some(Head(peers)),
          ok |-> FALSE]

\* Ok(resp) => resp.status().is_success(), Err(_) => false
probe_ok(reply) == reply.kind # "error" /\ is_success(reply.status)

\* the node at http://b: a node started on an enrolled store that has
\* synced once against http://a while both indexes were empty
RemoteInit ==
    [s |-> sync_register(main_serve(EnrolledStore).s, BaseA, 0),
     db |-> main_serve(EnrolledStore).db]

(***************************************************************************)
(* Moderation (handlers.rs): the report queue, the labels of posts and the *)
(* label dictionary with its file ./labels.json.  A report id is the       *)
(* number drawn by Uuid::new_v4; to_string is injective, so an id and the  *)
(* report_id of a request compare as the numbers do.                       *)
(***************************************************************************)
RECURSIVE trim_start(_)
trim_start(str) ==
    IF str # << >> /\ Head(str) \in Whitespace THEN trim_start(Tail(str)) ELSE str

RECURSIVE trim_end(_)
trim_end(str) ==
    IF str # << >> /\ str[Len(str)] \in Whitespace
    THEN trim_end(SubSeq(str, 1, Len(str) - 1))
    ELSE str

trim(str) == trim_end(trim_start(str))

RECURSIVE split_next(_, _)
\* str.split(c).next(): what precedes the first c, all of str without one
split_next(str, c) ==
    IF str = << >> \/ Head(str) = c THEN << >>
    ELSE << Head(str) >> \o split_next(Tail(str), c)

Unknown == << "u", "n", "k", "n", "o", "w", "n" >>

\* headers is a record of the two optional header values
reporter_ip(headers) ==
    IF IsSome(headers.x_forwarded_for)
    THEN trim(split_next(headers.x_forwarded_for[1], ","))
    ELSE IF IsSome(headers.x_real_ip) THEN headers.x_real_ip[1]
    ELSE Unknown

RECURSIVE report_loop(_, _, _, _, _, _)
\* the loop over the posted reports: uuids[i] is the id drawn for the i-th
report_loop(queue, reports, ip, uuids, t, i) ==
    IF i > Len(reports) THEN queue
    ELSE LET report == [post |-> reports[i].post, reason |-> reports[i].reason,
                        reported_at |-> t, reporter_ip |-> Some(ip),
                        id |-> uuids[i]]
         IN IF trim(report.reason) = << >>
            THEN report_loop(queue, reports, ip, uuids, t, i + 1)
            ELSE report_loop(Append(queue, report), reports, ip, uuids, t, i + 1)

moderation_report(st, headers, reports, uuids, t) ==
    [s |-> [st EXCEPT !.moderation_reports =
                report_loop(@, reports, reporter_ip(headers), uuids, t, 1)],
     status |-> 200]

\* Vec::retain, which keeps the reports of another id, and Iterator::find
retain(queue, report_id) == SelectSeq(queue, LAMBDA r : r.id # report_id)

find(queue, report_id) ==
    LET hits == { i \in 1..Len(queue) : queue[i].id = report_id }
    IN IF hits = {} THEN None
       ELSE Some(queue[CHOOSE i \in hits : \A j \in hits : i <= j])

\* auth is the JSON body {password}
admin_reports(st, auth) ==
    IF ~is_admin(st, auth.password) THEN [s |-> st, status |-> 401, out |-> None]
    ELSE [s |-> st, status |-> 200, out |-> Some(st.moderation_reports)]

\* the status of the rejection of the Json<AdminAuth> extractor
JsonRejection == 422

\* the route of admin_reports: body is the JSON object of the request with its
\* optional password field, and AdminAuth wants the field, so that a body
\* without it is rejected by the extractor before the handler runs
admin_reports_route(st, body) ==
    IF ~IsSome(body.password)
    THEN [s |-> st, status |-> JsonRejection, out |-> None]
    ELSE admin_reports(st, [password |-> body.password[1]])

\* faulty variant: the accepted report stays in the queue
admin_accept_report_keeping_report(st, password, action) ==
    IF ~IsSome(password) THEN [s |-> st, status |-> 401]
    ELSE IF ~is_admin(st, password[1]) THEN [s |-> st, status |-> 401]
    ELSE IF ~IsSome(find(st.moderation_reports, action.report_id))
    THEN [s |-> st, status |-> 404]
    ELSE LET post_id == find(st.moderation_reports, action.report_id)[1].post.id
         IN [s |-> [st EXCEPT !.post_labels =
                        IF IsSome(action.label)
                        THEN MapInsert(@, post_id, action.label[1]) ELSE @],
             status |-> 200]

\* password is the optional X-Admin-Password header
admin_accept_report(st, password, action) ==
    IF ~IsSome(password) THEN [s |-> st, status |-> 401]
    ELSE IF ~is_admin(st, password[1]) THEN [s |-> st, status |-> 401]
    ELSE IF ~IsSome(find(st.moderation_reports, action.report_id))
    THEN [s |-> st, status |-> 404]
    ELSE LET post_id == find(st.moderation_reports, action.report_id)[1].post.id
         IN [s |-> [st EXCEPT !.post_labels =
                        IF IsSome(action.label)
                        THEN MapInsert(@, post_id, action.label[1]) ELSE @,
                              !.moderation_reports = retain(@, action.report_id)],
             status |-> 200]

admin_delete_report(st, password, report_id) ==
    IF ~IsSome(password) THEN [s |-> st, status |-> 401]
    ELSE IF ~is_admin(st, password[1]) THEN [s |-> st, status |-> 401]
    ELSE [s |-> [st EXCEPT !.moderation_reports = retain(@, report_id)],
          status |-> 200]

\* serde_json::to_string_pretty(&labels_vec) and from_str::<Vec<ModerationLabel>>
labels_to_string_pretty(labels_vec) == [kind |-> "array", items |-> labels_vec]

labels_from_str(contents) ==
    IF contents.kind = "array" THEN Some(contents.items) ELSE None

\* the rewrite of ./labels.json on a disk that takes the write: order is the
\* order in which the HashMap yields its keys
write_labels(st, order) ==
    LET labels_vec == [i \in 1..Len(order) |->
                          [label |-> order[i],
                           description |-> st.label_definitions[order[i]]]]
    IN Some(labels_to_string_pretty(labels_vec))

\* the orders in which label_definitions.iter() can yield
iter_orders(st) ==
    Arrangements(DOMAIN st.label_definitions, Cardinality(DOMAIN st.label_definitions))

admin_add_label(st, file, password, label, order) ==
    IF ~IsSome(password) THEN [s |-> st, labels_json |-> file, status |-> 401]
    ELSE IF ~is_admin(st, password[1])
    THEN [s |-> st, labels_json |-> file, status |-> 401]
    ELSE IF label.label \in DOMAIN st.label_definitions
    THEN [s |-> st, labels_json |-> file, status |-> 400]
    ELSE LET st1 == [st EXCEPT !.label_definitions =
                        MapInsert(@, label.label, label.description)]
         IN [s |-> st1, labels_json |-> write_labels(st1, order),
             status |-> 200]

\* HashMap::retain on post_labels
strip_label(post_labels, label) ==
    [p \in { q \in DOMAIN post_labels : post_labels[q] # label } |-> post_labels[p]]

\* faulty variant: the posts keep the deleted label
admin_delete_label_keeping_posts(st, file, password, label, order) ==
    IF ~IsSome(password) THEN [s |-> st, labels_json |-> file, status |-> 401]
    ELSE IF ~is_admin(st, password[1])
    THEN [s |-> st, labels_json |-> file, status |-> 401]
    ELSE LET st1 == [st EXCEPT !.label_definitions = MapRemove(@, label)]
         IN [s |-> st1, labels_json |-> write_labels(st1, order),
             status |-> 200]

admin_delete_label(st, file, password, label, order) ==
    IF ~IsSome(password) THEN [s |-> st, labels_json |-> file, status |-> 401]
    ELSE IF ~is_admin(st, password[1])
    THEN [s |-> st, labels_json |-> file, status |-> 401]
    ELSE LET st1 == [st EXCEPT !.label_definitions = MapRemove(@, label),
                               !.post_labels = strip_label(@, label)]
         IN [s |-> st1, labels_json |-> write_labels(st1, order),
             status |-> 200]

RECURSIVE insert_labels(_, _, _)
insert_labels(defs, labels, i) ==
    IF i > Len(labels) THEN defs
    ELSE insert_labels(MapInsert(defs, labels[i].label, labels[i].description),
                       labels, i + 1)

\* main(): the label definitions are read back from ./labels.json
load_labels(st, file) ==
    IF ~IsSome(file) THEN st
    ELSE IF ~IsSome(labels_from_str(file[1])) THEN st
    ELSE [st EXCEPT !.label_definitions =
              insert_labels(@, labels_from_str(file[1])[1], 1)]

(***************************************************************************)
(* The state machine.  last names the last request that changed the state, *)
(* the karma code it was about, and for a revoke whether the request       *)
(* before it was the vote it undoes.                                       *)
(***************************************************************************)
Served(op, code, after_vote) == [op |-> op, code |-> code, after_vote |-> after_vote]

Init ==
    /\ db = main_serve(EnrolledStore).db
    /\ s = main_serve(EnrolledStore).s
    /\ now = 0
    /\ last = Served("start", << >>, FALSE)
    /\ remote = RemoteInit
    /\ sync_task = IdleTask
    /\ monitor = SleepingMonitor
    /\ lock = "none"
    /\ labels_json = None

GenerateRequests ==
    [count : 0..MaxCount, issuer : {"iss"}, vote_type : {None, Some("downvote")},
     expires : ExpiresSamples, region : {None}]

Headers == {None} \cup { Some(p) : p \in Passwords }

\* the envelopes sent with votes
VoteEnvelopes == {EnvA1, EnvB1, EnvMismatch}

\* the arrays posted to inbox and served by a remote outbox
StoreEnvelopes == {EnvA1, EnvA2, EnvB1, EnvLate, EnvUpper}

Batches == UNION { [1..n -> StoreEnvelopes] : n \in 0..MaxBatch }

ScoresWithin(st, bound) ==
    \A p \in DOMAIN st.karma_votes :
        st.karma_votes[p] <= bound /\ st.karma_votes[p] >= -bound

\* the clock advances between requests
Tick ==
    /\ now < MaxTime
    /\ now' = now + 1
    /\ UNCHANGED << labels_json, s, db, last, net >>

GenerateCodes ==
    \E password \in Headers, req \in GenerateRequests :
      \E raws \in [1..Max(req.count, 1) -> RawSamples] :
        LET r == admin_generate_karma_codes(s, password, req, raws) IN
        /\ s' = r.s
        /\ last' = IF r.status = 200 THEN Served("generate", << >>, FALSE) ELSE last
        /\ UNCHANGED << labels_json, db, now, net >>

GenerateCodesText ==
    \E password \in Headers, req \in GenerateRequests :
      \E raws \in [1..Max(req.count, 1) -> RawSamples] :
        LET r == admin_generate_karma_codes_text(s, password, req, raws) IN
        /\ s' = r.s
        /\ last' = IF r.status = 200 THEN Served("generate_text", << >>, FALSE) ELSE last
        /\ UNCHANGED << labels_json, db, now, net >>

Upvote ==
    \E code \in CodeSamples, envelope \in VoteEnvelopes :
        LET r == karma_upvote(s, code, envelope, now) IN
        /\ ScoresWithin(r.s, MaxScore)
        /\ s' = r.s
        /\ last' = IF r.status = 200 THEN Served("upvote", code, FALSE) ELSE last
        /\ UNCHANGED << labels_json, db, now, net >>

Downvote ==
    \E code \in CodeSamples, envelope \in VoteEnvelopes :
        LET r == karma_downvote(s, code, envelope, now) IN
        /\ ScoresWithin(r.s, MaxScore)
        /\ s' = r.s
        /\ last' = IF r.status = 200 THEN Served("downvote", code, FALSE) ELSE last
        /\ UNCHANGED << labels_json, db, now, net >>

Revoke ==
    \E code \in CodeSamples :
        LET r == karma_revoke(s, code) IN
        /\ s' = r.s
        /\ last' = IF r.status = 200
                   THEN Served("revoke", code,
                               last.op \in Directions /\ last.code = code)
                   ELSE last
        /\ UNCHANGED << labels_json, db, now, net >>

Inbox ==
    \E envelopes \in Batches :
      \E ok_inserts \in 0..Len(envelopes), flush_ok \in BOOLEAN :
        LET r == inbox(s, db, envelopes, now, ok_inserts, flush_ok) IN
        /\ flush_ok => ok_inserts = Len(envelopes)
        /\ s' = r.s
        /\ db' = r.db
        /\ last' = IF r.status = 200 THEN Served("inbox", << >>, FALSE) ELSE last
        /\ UNCHANGED << labels_json, now, net >>

SyncPull ==
    \E incoming \in Batches :
      \E ok_inserts \in 0..Len(incoming), flush_ok \in BOOLEAN :
        LET r == sync_pull(s, db, incoming, now, ok_inserts, flush_ok) IN
        /\ flush_ok => ok_inserts = Len(incoming)
        /\ s' = r.s
        /\ db' = r.db
        /\ last' = Served("sync", << >>, FALSE)
        /\ UNCHANGED << labels_json, now, net >>

\* the process stops and main() runs again on the same ./data
Restart ==
    /\ s' = load_labels(main_serve(db).s, labels_json)
    /\ db' = main_serve(db).db
    /\ last' = Served("restart", << >>, FALSE)
    /\ UNCHANGED << labels_json, now, net >>

KarmaNext ==
    \/ Tick
    \/ GenerateCodes
    \/ GenerateCodesText
    \/ Upvote
    \/ Downvote
    \/ Revoke

KarmaSpec == Init /\ [][KarmaNext]_vars

StoreNext ==
    \/ Tick
    \/ Inbox
    \/ SyncPull
    \/ Restart

StoreSpec == Init /\ [][StoreNext]_vars

(***************************************************************************)
(* The sync engine and the peer monitor as tasks that interleave at their  *)
(* suspension points.  A step runs one task from one await, or from one    *)
(* lock(), to the next.                                                    *)
(***************************************************************************)
\* the envelopes clients publish on the two nodes
SyncEnvelopes == {EnvA1, EnvB1, EnvC1}

\* what POST {base}/_openherd/inbox can do at clock t: the node it reaches
\* afterwards and the reply the client sees.  Node b runs its inbox handler
\* on the array, and its reply can still be lost; the server at c accepts.
InboxDeliveries(base, node, posts, t) ==
    LET r == inbox(node.s, node.db, posts, t, Len(posts), TRUE) IN
    { [remote |-> node, reply |-> NetworkError],
      [remote |-> node, reply |-> Response(413, None)] }
    \cup IF base.host = "b"
         THEN { [remote |-> [s |-> r.s, db |-> r.db], reply |-> Response(r.status, None)],
                [remote |-> [s |-> r.s, db |-> r.db], reply |-> NetworkError] }
         ELSE { [remote |-> node, reply |-> Response(200, None)] }

\* a client posts one envelope to the inbox of this node
Publish ==
    \E envelope \in SyncEnvelopes :
        LET r == inbox(s, db, << envelope >>, now, 1, TRUE) IN
        /\ lock = "none"
        /\ s' = r.s
        /\ db' = r.db
        /\ sync_task' = [sync_task EXCEPT !.start = None]
        /\ UNCHANGED << labels_json, now, last, remote, monitor, lock >>

\* a client posts one envelope to the inbox of the node at http://b
RemotePublish ==
    \E envelope \in SyncEnvelopes :
        LET r == inbox(remote.s, remote.db, << envelope >>, now, 1, TRUE) IN
        /\ remote' = [s |-> r.s, db |-> r.db]
        /\ sync_task' = [sync_task EXCEPT !.start = None]
        /\ UNCHANGED << labels_json, s, db, now, last, monitor, lock >>

\* POST /_openherd/sync arrives
SyncRequest ==
    /\ sync_task.pc \in {"idle", "done"}
    /\ \E address \in Addresses :
          sync_task' = [sync_request(address) EXCEPT
                           !.start = Some([sa |-> outbox(s), sb |-> outbox(remote.s)])]
    /\ UNCHANGED << labels_json, s, db, now, last, remote, monitor, lock >>

SyncGetReturns ==
    /\ sync_task.pc = "get"
    /\ \E reply \in OutboxReplies(sync_task.base[1], remote) :
          sync_task' = sync_get_returns(sync_task, reply)
    /\ UNCHANGED << labels_json, s, db, now, last, remote, monitor, lock >>

SyncDecodeReturns ==
    /\ sync_task.pc = "decode"
    /\ sync_task' = sync_decode_returns(sync_task)
    /\ UNCHANGED << labels_json, s, db, now, last, remote, monitor, lock >>

\* state.lock() of one of the three blocks of sync
SyncLock ==
    /\ sync_task.pc \in {"insert", "snapshot", "register"}
    /\ lock = "none"
    /\ lock' = "sync"
    /\ UNCHANGED << labels_json, s, db, now, last, remote, sync_task, monitor >>

SyncInsert ==
    /\ sync_task.pc = "insert"
    /\ lock = "sync"
    /\ \E ok_inserts \in 0..Len(sync_task.incoming), flush_ok \in BOOLEAN :
          LET r == sync_pull(s, db, sync_task.incoming, now, ok_inserts, flush_ok) IN
          /\ flush_ok => ok_inserts = Len(sync_task.incoming)
          /\ s' = r.s
          /\ db' = r.db
    /\ sync_task' = [sync_task EXCEPT !.pc = "snapshot", !.inserted = TRUE,
                                      !.incoming = << >>]
    /\ lock' = drop_guard(lock)
    /\ UNCHANGED << labels_json, now, last, remote, monitor >>

SyncSnapshot ==
    /\ sync_task.pc = "snapshot"
    /\ lock = "sync"
    /\ \E posts \in Snapshots(s) :
          sync_task' = [sync_task EXCEPT !.pc = "post", !.posts_to_send = posts]
    /\ lock' = drop_guard(lock)
    /\ UNCHANGED << labels_json, s, db, now, last, remote, monitor >>

SyncPostReturns ==
    /\ sync_task.pc = "post"
    /\ \E d \in InboxDeliveries(sync_task.base[1], remote, sync_task.posts_to_send, now) :
          /\ remote' = d.remote
          /\ sync_task' = sync_post_returns(sync_task, d.reply)
    /\ UNCHANGED << labels_json, s, db, now, last, monitor, lock >>

SyncRegister ==
    /\ sync_task.pc = "register"
    /\ lock = "sync"
    /\ s' = sync_register(s, sync_task.base[1], now)
    /\ sync_task' = sync_response(sync_task, TRUE)
    /\ lock' = drop_guard(lock)
    /\ UNCHANGED << labels_json, db, now, last, remote, monitor >>

\* the 120 s sleep of the monitor is over
MonitorWake ==
    /\ monitor.pc = "sleep"
    /\ monitor' = [monitor EXCEPT !.pc = "snapshot"]
    /\ UNCHANGED << labels_json, s, db, now, last, remote, sync_task, lock >>

\* state.lock() before the snapshot or before the update of a peer
MonitorLock ==
    /\ monitor.pc \in {"snapshot", "update"}
    /\ lock = "none"
    /\ lock' = "monitor"
    /\ UNCHANGED << labels_json, s, db, now, last, remote, sync_task, monitor >>

MonitorSnapshot ==
    /\ monitor.pc = "snapshot"
    /\ lock = "monitor"
    /\ \E peers \in Arrangements(DOMAIN s.peers, Cardinality(DOMAIN s.peers)) :
          monitor' = monitor_next(peers)
    /\ lock' = drop_guard(lock)
    /\ UNCHANGED << labels_json, s, db, now, last, remote, sync_task >>

MonitorProbeReturns ==
    /\ monitor.pc = "probe"
    /\ \E reply \in OutboxReplies(monitor.addr[1], remote) :
          monitor' = [monitor EXCEPT !.pc = "update", !.ok = probe_ok(reply)]
    /\ UNCHANGED << labels_json, s, db, now, last, remote, sync_task, lock >>

MonitorUpdate ==
    /\ monitor.pc = "update"
    /\ lock = "monitor"
    /\ s' = monitor_update(s, monitor.addr[1], monitor.ok, now)
    /\ monitor' = monitor_next(monitor.peers)
    /\ lock' = drop_guard(lock)
    /\ UNCHANGED << labels_json, db, now, last, remote, sync_task >>

SyncSteps ==
    \/ SyncRequest
    \/ SyncGetReturns
    \/ SyncDecodeReturns
    \/ SyncLock
    \/ SyncInsert
    \/ SyncSnapshot
    \/ SyncPostReturns
    \/ SyncRegister

MonitorSteps ==
    \/ MonitorWake
    \/ MonitorLock
    \/ MonitorSnapshot
    \/ MonitorProbeReturns
    \/ MonitorUpdate

\* two nodes that publish posts and one sync request at a time
SyncNext ==
    \/ Publish
    \/ RemotePublish
    \/ SyncSteps

SyncSpec == Init /\ [][SyncNext]_vars

\* sync requests and the peer monitor over the registry of this node
PeerNext ==
    \/ Tick
    \/ SyncSteps
    \/ MonitorSteps

PeerSpec == Init /\ [][PeerNext]_vars

\* The tasks run on the tokio runtime: a task that can take a step takes it.
\* The timer of the sleep fires, a section under the lock ends, and a task
\* blocked in lock() gets the mutex once it is free often enough.  The
\* requests of sync end within the 15 s timeout of its client.  The client
\* of peer_monitor is reqwest::Client::new(), which has no timeout: nothing
\* makes a probe return.
PeerFairness ==
    /\ WF_vars(MonitorWake)
    /\ SF_vars(MonitorLock)
    /\ WF_vars(MonitorSnapshot)
    /\ WF_vars(MonitorUpdate)
    /\ SF_vars(SyncLock)
    /\ WF_vars(SyncInsert)
    /\ WF_vars(SyncSnapshot)
    /\ WF_vars(SyncRegister)
    /\ WF_vars(SyncGetReturns)
    /\ WF_vars(SyncDecodeReturns)
    /\ WF_vars(SyncPostReturns)

PeerFairSpec == PeerSpec /\ PeerFairness

(***************************************************************************)
(* The moderation requests.  Uuid::new_v4 draws 122 random bits: an id     *)
(* that is already in the queue is not drawn again.                        *)
(***************************************************************************)
Uuids == 1..MaxReports

\* report ids a request can name: the drawn ones and one never drawn
ReportIds == {0} \cup Uuids

Blank == << " " >>

ReportSamples ==
    { [post |-> EnvA1, reason |-> << "b" >>],
      [post |-> EnvB1, reason |-> << "b" >>],
      [post |-> EnvA1, reason |-> Blank] }

\* the arrays posted to report: one report, or a report of EnvB1 after another
ReportBatches ==
    { << r >> : r \in ReportSamples } \cup
    { << r1, r2 >> : r1 \in ReportSamples, r2 \in { r \in ReportSamples : r.post = EnvB1 } }

\* a reverse proxy's X-Forwarded-For with two hops, or its X-Real-IP
ReportHeaders ==
    { [x_forwarded_for |-> Some(<< " ", "7", ",", "8" >>), x_real_ip |-> None],
      [x_forwarded_for |-> None, x_real_ip |-> Some(<< "7" >>)] }

LabelSamples ==
    { [label |-> "spam", description |-> "d1"],
      [label |-> "spam", description |-> "d2"],
      [label |-> "nsfw", description |-> "d1"] }

LabelNames == { l.label : l \in LabelSamples }

AcceptActions ==
    [report_id : ReportIds, label : {None} \cup { Some(n) : n \in LabelNames }]

QueuedIds(st) == { st.moderation_reports[i].id : i \in 1..Len(st.moderation_reports) }

Report ==
    \E headers \in ReportHeaders, reports \in ReportBatches :
      \E uuids \in Arrangements(Uuids \ QueuedIds(s), Len(reports)) :
        LET r == moderation_report(s, headers, reports, uuids, now) IN
        /\ Len(uuids) = Len(reports)
        /\ Len(r.s.moderation_reports) <= MaxReports
        /\ s' = r.s
        /\ UNCHANGED << labels_json, db, now, last, net >>

\* the password travels in the JSON body of the request
ListReports ==
    \E body \in [password : Headers] :
        LET r == admin_reports_route(s, body) IN
        /\ s' = r.s
        /\ UNCHANGED << labels_json, db, now, last, net >>

AcceptReport ==
    \E password \in Headers, action \in AcceptActions :
        LET r == admin_accept_report(s, password, action) IN
        /\ s' = r.s
        /\ UNCHANGED << labels_json, db, now, last, net >>

DeleteReport ==
    \E password \in Headers, report_id \in ReportIds :
        LET r == admin_delete_report(s, password, report_id) IN
        /\ s' = r.s
        /\ UNCHANGED << labels_json, db, now, last, net >>

AddLabel ==
    \E password \in Headers, label \in LabelSamples :
      \E order \in Arrangements(DOMAIN s.label_definitions \cup {label.label},
                                Cardinality(DOMAIN s.label_definitions \cup {label.label})) :
        LET r == admin_add_label(s, labels_json, password, label, order) IN
        /\ s' = r.s
        /\ labels_json' = r.labels_json
        /\ UNCHANGED << db, now, last, net >>

DeleteLabel ==
    \E password \in Headers, label \in LabelNames :
      \E order \in Arrangements(DOMAIN s.label_definitions \ {label},
                                Cardinality(DOMAIN s.label_definitions \ {label})) :
        LET r == admin_delete_label(s, labels_json, password, label, order) IN
        /\ s' = r.s
        /\ labels_json' = r.labels_json
        /\ UNCHANGED << db, now, last, net >>

ModNext ==
    \/ Report
    \/ ListReports
    \/ AcceptReport
    \/ DeleteReport
    \/ AddLabel
    \/ DeleteLabel
    \/ Restart

ModSpec == Init /\ [][ModNext]_vars

(***************************************************************************)
(* Posts at the edges of what validate_post lets through, each sent alone   *)
(* to inbox on a store that takes the insert and the flush.                 *)
(***************************************************************************)
PostJsonAt(id, text, latitude, longitude, date) ==
    [empty |-> FALSE,
     json |-> Some([id |-> id, text |-> text, latitude |-> latitude,
                    longitude |-> longitude, date |-> date])]

Hi == << "h", "i" >>

\* the latitudes and longitudes at and one step beyond the bounds
EdgeLatitudes ==
    {-90 * LatScale - 1, -90 * LatScale, 90 * LatScale, 90 * LatScale + 1}

EdgeLongitudes ==
    {-180 * LatScale - 1, -180 * LatScale, 180 * LatScale, 180 * LatScale + 1}

\* the date of the plain post and the dates around the tolerance of every
\* clock value
EdgeDates == {0} \cup (FutureTolerance..(FutureTolerance + MaxTime + 1))

EdgeTexts == { << >>, << " " >>, << "\t", " ", "\n" >>, << " ", "h", " " >> }

\* the posts of id that leave the plain post in one field
EdgePosts(id) ==
    { PostJsonAt(id, Hi, lat, 0, 0) : lat \in EdgeLatitudes } \cup
    { PostJsonAt(id, Hi, 0, lon, 0) : lon \in EdgeLongitudes } \cup
    { PostJsonAt(id, Hi, 0, 0, date) : date \in EdgeDates } \cup
    { PostJsonAt(id, text, 0, 0, 0) : text \in EdgeTexts }

EdgeEnvelopes ==
    UNION { { SignedEnvelope(key, fingerprint(key), data) :
                data \in EdgePosts(fingerprint(key)) } : key \in {"KA", "KB"} }

InboxEdge ==
    \E envelope \in EdgeEnvelopes :
        LET r == inbox(s, db, << envelope >>, now, 1, TRUE) IN
        /\ s' = r.s
        /\ db' = r.db
        /\ last' = IF r.status = 200 THEN Served("inbox", << >>, FALSE) ELSE last
        /\ UNCHANGED << labels_json, now, net >>

EdgeNext ==
    \/ Tick
    \/ InboxEdge

EdgeSpec == Init /\ [][EdgeNext]_vars

(***************************************************************************)
(* Properties of the karma engine, checked under KarmaSpec.                *)
(***************************************************************************)
Codes(st) == DOMAIN st.karma_codes

Spent(st, code) == IsSome(st.karma_codes[code].current_post)

Score(st, p) == IF p \in DOMAIN st.karma_votes THEN st.karma_votes[p] ELSE 0

Opposite(direction) == IF direction = "upvote" THEN "downvote" ELSE "upvote"

AllPostIds == << << "a", "1" >>, << "b", "2" >>, << "c", "3" >> >>

ValidAt(envelope, t) == validate_envelope(envelope, t) = "Ok"

RECURSIVE SumOver(_, _)
\* the sum of the votes that the codes in the set cs hold right now
SumOver(st, cs) ==
    IF cs = {} THEN 0
    ELSE LET c == CHOOSE x \in cs : TRUE IN
         (IF st.karma_codes[c].used_direction = Some("upvote") THEN 1 ELSE -1)
         + SumOver(st, cs \ {c})

Contributed(st, p) ==
    SumOver(st, { c \in Codes(st) : st.karma_codes[c].current_post = Some(p) })

\* C1: in every reachable state the score of every post equals the sum, over
\* the codes whose current_post is that post, of +1 for an upvote and -1 for a
\* downvote.
C1_ScoreIsSumOfCodes ==
    \A p \in PostIds : Score(s, p) = Contributed(s, p)

\* C2: every code is either unspent (no current_post, no used_direction) or
\* spent on exactly one post (both present), and a vote succeeds only on a
\* code that is unspent, which it then spends on the post of its envelope.
C2_OneVotePerCode ==
    /\ \A c \in Codes(s) :
          /\ Len(s.karma_codes[c].current_post) <= 1
          /\ IsSome(s.karma_codes[c].current_post)
               <=> IsSome(s.karma_codes[c].used_direction)
    /\ \A c \in CodeSamples, e \in VoteEnvelopes, d \in Directions :
          LET r == karma_vote(s, c, e, d, now) IN
          r.status = 200 =>
             /\ ~Spent(s, c)
             /\ r.s.karma_codes[c].current_post = Some(e.id)
             /\ r.s.karma_codes[c].used_direction = Some(d)

C2_Witness ==
    /\ last.op \in Directions
    /\ Spent(s, last.code)
    /\ \E c \in Codes(s) : ~Spent(s, c)

\* C3: a successful vote followed at once by a revoke of the same code leaves
\* the looked-up score of every post as it was before the vote and leaves the
\* code unspent.
C3_VoteThenRevoke ==
    \A c \in CodeSamples, e \in VoteEnvelopes, d \in Directions :
        LET v == karma_vote(s, c, e, d, now) IN
        v.status = 200 =>
           LET r == karma_revoke(v.s, c) IN
           /\ r.status = 200
           /\ karma_lookup(r.s, AllPostIds) = karma_lookup(s, AllPostIds)
           /\ r.s.karma_codes[c].current_post = None
           /\ r.s.karma_codes[c].used_direction = None

C3_Witness ==
    /\ last.op = "revoke"
    /\ last.after_vote
    /\ ~Spent(s, last.code)
    /\ \E p \in DOMAIN s.karma_votes : s.karma_votes[p] = 0
    /\ \E p \in DOMAIN s.karma_votes : s.karma_votes[p] # 0

\* C4 as claimed: after a revoke of a code that was used with direction d, a
\* vote in the opposite direction is rejected with 400 and a vote in
\* direction d succeeds, on any post.
C4_LockAfterRevoke ==
    \A c \in Codes(s) :
        (last.op = "revoke" /\ last.code = c /\ IsSome(s.karma_codes[c].vote_type)) =>
            \A e \in VoteEnvelopes :
                ValidAt(e, now) =>
                    LET d == s.karma_codes[c].vote_type[1] IN
                    /\ karma_vote(s, c, e, Opposite(d), now).status = 400
                    /\ karma_vote(s, c, e, d, now).status = 200

\* C4 amended: a successful vote with direction d leaves vote_type = d, no
\* vote or revoke request changes a vote_type that is set, and on an unspent
\* code locked to d that has not expired a vote with a valid envelope is
\* rejected with 400 in the opposite direction and succeeds in direction d;
\* once the code has expired both are answered 410.
C4_DirectionLock ==
    /\ \A c \in CodeSamples, e \in VoteEnvelopes, d \in Directions :
          LET v == karma_vote(s, c, e, d, now) IN
          /\ v.status = 200 => v.s.karma_codes[c].vote_type = Some(d)
          /\ \A k \in Codes(s) :
                IsSome(s.karma_codes[k].vote_type) =>
                   v.s.karma_codes[k].vote_type = s.karma_codes[k].vote_type
    /\ \A c, k \in Codes(s) :
          karma_revoke(s, c).s.karma_codes[k].vote_type = s.karma_codes[k].vote_type
    /\ \A c \in Codes(s) :
          (IsSome(s.karma_codes[c].vote_type) /\ ~Spent(s, c)) =>
             \A e \in VoteEnvelopes :
                ValidAt(e, now) =>
                   LET d == s.karma_codes[c].vote_type[1]
                       expired == s.karma_codes[c].expires < now
                   IN /\ karma_vote(s, c, e, Opposite(d), now).status
                            = IF expired THEN 410 ELSE 400
                      /\ karma_vote(s, c, e, Opposite(d), now).s = s
                      /\ karma_vote(s, c, e, d, now).status
                            = IF expired THEN 410 ELSE 200

C4_Witness ==
    /\ last.op = "revoke"
    /\ IsSome(s.karma_codes[last.code].vote_type)
    /\ ~Spent(s, last.code)
    /\ s.karma_codes[last.code].expires >= now

\* C5: whenever a code has a used_direction, it equals the code's vote_type,
\* and a successful vote sets it to the direction of that vote.
C5_UsedDirection ==
    /\ \A c \in Codes(s) :
          IsSome(s.karma_codes[c].used_direction) =>
             s.karma_codes[c].used_direction = s.karma_codes[c].vote_type
    /\ \A c \in CodeSamples, e \in VoteEnvelopes, d \in Directions :
          LET v == karma_vote(s, c, e, d, now) IN
          v.status = 200 => v.s.karma_codes[c].used_direction = Some(d)

C5_Witness ==
    /\ last.op = "downvote"
    /\ s.karma_codes[last.code].used_direction = Some("downvote")
    /\ \E c \in Codes(s) : s.karma_codes[c].used_direction = Some("upvote")

\* the status the claimed precedence gives a vote request
VotePrecedence(st, code, envelope, direction, t) ==
    IF code \notin Codes(st) THEN 404
    ELSE IF ~ValidAt(envelope, t) THEN 400
    ELSE IF st.karma_codes[code].expires < t THEN 410
    ELSE IF Spent(st, code) THEN 409
    ELSE IF st.karma_codes[code].vote_type \notin {None, Some(direction)} THEN 400
    ELSE 200

\* C6: a vote answers 404 for an unknown code, else 400 for an invalid
\* envelope, else 410 for a code whose expires is before now, else 409 for a
\* spent code, else 400 for a direction other than the vote_type, else it
\* succeeds; a code whose expires equals now is not expired.
C6_ErrorPrecedence ==
    /\ \A c \in CodeSamples, e \in VoteEnvelopes, d \in Directions :
          karma_vote(s, c, e, d, now).status = VotePrecedence(s, c, e, d, now)
    /\ \A c \in Codes(s), e \in VoteEnvelopes, d \in Directions :
          (ValidAt(e, now) /\ s.karma_codes[c].expires = now) =>
             karma_vote(s, c, e, d, now).status # 410

C6_Witness ==
    \E c \in Codes(s), c2 \in CodeSamples \ Codes(s) :
        /\ Spent(s, c)
        /\ s.karma_codes[c].expires < now
        /\ karma_vote(s, c, EnvA1, "upvote", now).status = 410
        /\ karma_vote(s, c, EnvMismatch, "upvote", now).status = 400
        /\ karma_vote(s, c2, EnvMismatch, "upvote", now).status = 404

(***************************************************************************)
(* Properties of the index and the store, checked under StoreSpec.         *)
(***************************************************************************)
\* C7: once the index maps an id to an envelope, it maps that id to the same
\* envelope in every later state of the same process run.
C7_EnvelopesPermanent ==
    [][Restart \/ \A id \in DOMAIN s.memory :
                     id \in DOMAIN s'.memory /\ s'.memory[id] = s.memory[id]]_vars

Orderings(n) ==
    { f \in [1..n -> 1..n] : \A i, j \in 1..n : f[i] = f[j] => i = j }

Reordered(envelopes, f) == [i \in 1..Len(envelopes) |-> envelopes[f[i]]]

\* C8: posting an array of envelopes and posting any permutation of it from
\* the same state end in the same index.
C8_InboxOrderIndependent ==
    \A envelopes \in Batches :
        \A f \in Orderings(Len(envelopes)) :
            inbox(s, db, Reordered(envelopes, f), now, Len(envelopes), TRUE).s.memory
                = inbox(s, db, envelopes, now, Len(envelopes), TRUE).s.memory

\* the envelopes the store holds that deserialize and validate
StoredEnvelopes(store, t) ==
    { envelope_from_slice(store[k])[1] :
        k \in { x \in DOMAIN store :
                  /\ IsSome(envelope_from_slice(store[x]))
                  /\ ValidAt(envelope_from_slice(store[x])[1], t) } }

\* C9: right after a restart the index holds exactly the valid envelopes
\* that the store holds.
C9_RestartRestoresIndex ==
    last.op = "restart" => outbox(s) = StoredEnvelopes(db, now)

\* C10: every envelope of the index is held by the store under its id.
C10_IndexWithinStore ==
    \A id \in DOMAIN s.memory :
        /\ id \in DOMAIN db
        /\ envelope_from_slice(db[id]) = Some(s.memory[id])

\* the exact identity of an envelope: the lowercase hex fingerprint of its
\* key is its id and the id of its post, and its signature verifies
ExactIdentity(envelope) ==
    /\ IsSome(envelope.public_key.parsed)
    /\ IsSome(envelope.data.json)
    /\ fingerprint(envelope.public_key.parsed[1]) = envelope.id
    /\ envelope.id = envelope.data.json[1].id
    /\ verify_signature(envelope.signature, envelope.data,
                        envelope.public_key.parsed[1]) = "Ok"

\* the envelopes of an array that fail validation at clock t
Invalid(envelopes, t) ==
    { envelopes[i] : i \in { j \in 1..Len(envelopes) : ~ValidAt(envelopes[j], t) } }

\* C11: every envelope that inbox or sync puts in the index and the store
\* has fingerprint(public_key) = envelope.id = post.id exactly, with a
\* signature that verifies over data, and no envelope that fails validation
\* is inserted.
C11_InsertedExactIdentity ==
    /\ \A id \in DOMAIN s.memory : ExactIdentity(s.memory[id])
    /\ \A k \in DOMAIN db \ {AdminKey} :
          /\ IsSome(envelope_from_slice(db[k]))
          /\ ExactIdentity(envelope_from_slice(db[k])[1])
    /\ \A envelopes \in Batches :
          LET r == inbox(s, db, envelopes, now, Len(envelopes), TRUE)
              q == sync_pull(s, db, envelopes, now, Len(envelopes), TRUE)
          IN /\ (outbox(r.s) \ outbox(s)) \cap Invalid(envelopes, now) = {}
             /\ (outbox(q.s) \ outbox(s)) \cap Invalid(envelopes, now) = {}

\* the store outcomes an inbox call over n envelopes can meet
StoreOutcomes(n) ==
    { o \in [ok_inserts : 0..n, flush_ok : BOOLEAN] : o.flush_ok => o.ok_inserts = n }

\* inbox answers 400 exactly for a non-empty array whose envelopes all fail
\* validation, and 200 otherwise
InboxStatusRule(st, store, envelopes, t, o) ==
    LET r == inbox(st, store, envelopes, t, o.ok_inserts, o.flush_ok) IN
    /\ r.status \in {200, 400}
    /\ r.status = 400 <=>
          /\ Len(envelopes) > 0
          /\ \A i \in 1..Len(envelopes) : ~ValidAt(envelopes[i], t)

\* C12: inbox returns 400 exactly when the array is non-empty and every
\* envelope of it fails validation, and success otherwise; afterwards every
\* valid envelope of the array is in the index and no invalid one was put in.
C12_InboxAllOrNothing400 ==
    \A envelopes \in Batches : \A o \in StoreOutcomes(Len(envelopes)) :
        LET r == inbox(s, db, envelopes, now, o.ok_inserts, o.flush_ok) IN
        /\ InboxStatusRule(s, db, envelopes, now, o)
        /\ \A i \in 1..Len(envelopes) :
              ValidAt(envelopes[i], now) => envelopes[i] \in outbox(r.s)
        /\ (outbox(r.s) \ outbox(s)) \cap Invalid(envelopes, now) = {}

(***************************************************************************)
(* Properties of the sync engine and the peer monitor, checked under       *)
(* PeerSpec and SyncSpec.                                                  *)
(***************************************************************************)
\* the positions where a task waits on the network or on the timer
SyncAwaits == {"get", "decode", "post"}

MonitorAwaits == {"sleep", "probe"}

\* C13: no task holds the state lock while it waits on an HTTP request, on
\* the decoding of a response or on the monitor's sleep; while both tasks
\* wait, the lock is free for other requests.
C13_NoLockAcrossAwait ==
    /\ sync_task.pc \in SyncAwaits => lock # "sync"
    /\ monitor.pc \in MonitorAwaits => lock # "monitor"
    /\ (sync_task.pc \in SyncAwaits \cup {"idle", "done"} /\ monitor.pc \in MonitorAwaits)
          => lock = "none"

C13_Witness ==
    /\ sync_task.pc = "post"
    /\ sync_task.inserted
    /\ monitor.pc = "probe"
    /\ lock = "none"

\* C14: the push is issued only after the pull returned 200 with a body
\* that decoded and the valid pulled envelopes were put in the index; sync
\* answers ok = true only after both requests returned 200, and it writes
\* the registry only after the push returned 200.
C14_PullThenPush ==
    /\ [](/\ sync_task.pc = "post" =>
               sync_task.pull_status = 200 /\ sync_task.inserted
          /\ sync_task.pc = "register" =>
               sync_task.pull_status = 200 /\ sync_task.push_status = 200
          /\ (sync_task.pc = "done" /\ sync_task.ok) =>
               /\ sync_task.pull_status = 200
               /\ sync_task.inserted
               /\ sync_task.push_status = 200)
    /\ [][/\ (sync_task.pc = "insert" /\ sync_task'.pc = "snapshot") =>
               \A i \in 1..Len(sync_task.incoming) :
                   ValidAt(sync_task.incoming[i], now) =>
                       sync_task.incoming[i] \in outbox(s')
          /\ s'.peers # s.peers =>
               /\ sync_task.pc = "register"
               /\ sync_task.push_status = 200
               /\ sync_task'.ok]_vars

C14_Witness ==
    /\ sync_task.pc = "done"
    /\ sync_task.ok
    /\ sync_task.base = Some(BaseB)
    /\ EnvB1 \in outbox(s)
    /\ EnvA1 \in outbox(remote.s)
    /\ BaseB \in DOMAIN s.peers

\* a step of the sync task: its position or its locals change, or it takes
\* the lock
SyncStep ==
    \/ [sync_task' EXCEPT !.start = None] # [sync_task EXCEPT !.start = None]
    \/ (lock' = "sync" /\ lock # "sync")

\* C15: a sync that ends with ok = false has left the peer registry as it
\* was at every one of its steps, and the envelopes it had pulled and
\* inserted before the failure stay in the index.
C15_FailedSyncFrame ==
    [][/\ (SyncStep /\ ~(sync_task'.pc = "done" /\ sync_task'.ok)) =>
             s'.peers = s.peers
       /\ (SyncStep /\ sync_task'.pc = "done" /\ ~sync_task'.ok) =>
             s'.memory = s.memory /\ db' = db
       /\ (SyncStep /\ sync_task.pc = "insert" /\ sync_task'.pc = "snapshot") =>
             \A i \in 1..Len(sync_task.incoming) :
                 ValidAt(sync_task.incoming[i], now) =>
                     sync_task.incoming[i] \in outbox(s')
       /\ SyncStep =>
             \A id \in DOMAIN s.memory :
                 id \in DOMAIN s'.memory /\ s'.memory[id] = s.memory[id]]_vars

C15_Witness ==
    /\ sync_task.pc = "done"
    /\ ~sync_task.ok
    /\ sync_task.inserted
    /\ sync_task.push_status = 413
    /\ EnvB1 \in outbox(s)
    /\ BaseB \notin DOMAIN s.peers
    /\ BaseC \in DOMAIN s.peers

\* C16: a successful sync against base b leaves b in the registry of the
\* initiator with failures = 0 and last_ok = now, whether b was present
\* or not; it changes no other entry of that registry, and no step of the
\* sync changes the registry of the target node.
C16_SuccessfulSyncUpserts ==
    [][/\ (SyncStep /\ sync_task'.pc = "done" /\ sync_task'.ok) =>
             LET b == sync_task.base[1] IN
             /\ sync_task.pc = "register"
             /\ DOMAIN s'.peers = DOMAIN s.peers \cup {b}
             /\ s'.peers[b] = PeerStatus(0, Some(now))
             /\ \A x \in DOMAIN s.peers \ {b} : s'.peers[x] = s.peers[x]
       /\ SyncStep => remote'.s.peers = remote.s.peers]_vars

C16_Witness ==
    /\ sync_task.pc = "done"
    /\ sync_task.ok
    /\ sync_task.base = Some(BaseB)
    /\ now = 1
    /\ s.peers[BaseB] = PeerStatus(0, Some(1))
    /\ BaseC \in DOMAIN s.peers
    /\ s.peers[BaseC] = PeerStatus(3, Some(0))
    /\ BaseA \in DOMAIN remote.s.peers

\* a sync against http://b has answered ok = true and no other request
\* wrote an index since it arrived
SyncAloneDone ==
    /\ sync_task.pc = "done"
    /\ sync_task.ok
    /\ sync_task.base = Some(BaseB)
    /\ IsSome(sync_task.start)

\* the envelopes of S are valid now and no two of them share an id
ValidDistinct(S) ==
    /\ \A e \in S : ValidAt(e, now)
    /\ \A e, f \in S : e.id = f.id => e = f

\* C17 as claimed: when this node held SA and the node at b held SB, valid
\* envelopes with distinct ids and no more of them in SA than the snapshot
\* takes, a sync against b that answers ok = true with nothing interleaved
\* leaves SA \cup SB in the index of both nodes.
C17_ConvergenceWithinSA ==
    SyncAloneDone =>
        LET sa == sync_task.start[1].sa
            sb == sync_task.start[1].sb
        IN (ValidDistinct(sa \cup sb) /\ Cardinality(sa) <= SnapshotLimit) =>
               outbox(s) = sa \cup sb /\ outbox(remote.s) = sa \cup sb

\* C17 amended: the same with no more envelopes in SA \cup SB than the
\* snapshot takes.
C17_ConvergenceWithinUnion ==
    SyncAloneDone =>
        LET sa == sync_task.start[1].sa
            sb == sync_task.start[1].sb
        IN (ValidDistinct(sa \cup sb) /\ Cardinality(sa \cup sb) <= SnapshotLimit) =>
               outbox(s) = sa \cup sb /\ outbox(remote.s) = sa \cup sb

C17_Witness ==
    /\ SyncAloneDone
    /\ sync_task.start[1].sa = {EnvA1}
    /\ sync_task.start[1].sb = {EnvB1}
    /\ outbox(s) = {EnvA1, EnvB1}
    /\ outbox(remote.s) = {EnvA1, EnvB1}

\* the monitor applies the result of a probe to the registry
MonitorUpdateStep == monitor.pc = "update" /\ monitor' # monitor

\* C18: for a peer of the monitor's snapshot, a probe answered with a 2xx
\* status sets its failures to 0 and its last_ok to now; any other outcome
\* adds one to failures and removes the peer exactly when the sum is at
\* least 5; the entries of the other peers are as before.
C18_ProbeEffect ==
    /\ [](monitor.pc = "probe" =>
             \A reply \in OutboxReplies(monitor.addr[1], remote) :
                 probe_ok(reply) <=>
                     (reply.kind = "response" /\ reply.status \in 200..299))
    /\ [][MonitorUpdateStep =>
             LET x == monitor.addr[1] IN
             /\ x \in DOMAIN s.peers
             /\ monitor.ok =>
                   /\ x \in DOMAIN s'.peers
                   /\ s'.peers[x] = PeerStatus(0, Some(now))
             /\ (~monitor.ok /\ s.peers[x].failures + 1 >= 5) =>
                   x \notin DOMAIN s'.peers
             /\ (~monitor.ok /\ s.peers[x].failures + 1 < 5) =>
                   /\ x \in DOMAIN s'.peers
                   /\ s'.peers[x] = PeerStatus(s.peers[x].failures + 1, s.peers[x].last_ok)
             /\ DOMAIN s'.peers \ {x} = DOMAIN s.peers \ {x}
             /\ \A y \in DOMAIN s.peers \ {x} : s'.peers[y] = s.peers[y]]_vars

C18_Witness ==
    /\ sync_task.pc = "done"
    /\ sync_task.ok
    /\ sync_task.base = Some(BaseB)
    /\ BaseB \notin DOMAIN s.peers
    /\ BaseC \in DOMAIN s.peers
    /\ s.peers[BaseC] = PeerStatus(0, Some(1))
    /\ monitor.pc = "sleep"

\* a step of the peer monitor
MonitorStep == monitor' # monitor \/ (lock' = "monitor" /\ lock # "monitor")

\* C19: no step of the monitor makes a base URL present in the registry that
\* was absent before the step, whatever sync requests run between its
\* steps: the peer it probes is in the registry until it updates it.  A
\* base URL becomes present only by the last block of a sync that answers
\* ok = true.
C19_MonitorNeverGrows ==
    /\ [](monitor.pc \in {"probe", "update"} => monitor.addr[1] \in DOMAIN s.peers)
    /\ [][/\ MonitorStep => DOMAIN s'.peers \subseteq DOMAIN s.peers
          /\ ~(DOMAIN s'.peers \subseteq DOMAIN s.peers) =>
                /\ SyncStep
                /\ sync_task.pc = "register"
                /\ sync_task'.ok]_vars

C19_Witness ==
    /\ monitor.pc = "probe"
    /\ monitor.addr = Some(BaseC)
    /\ monitor.peers = << >>
    /\ BaseB \notin DOMAIN s.peers
    /\ sync_task.pc = "register"
    /\ sync_task.base = Some(BaseB)
    /\ lock = "sync"

\* a good probe of x returns, or a sync against x is about to answer ok = true
Revives(x) ==
    \/ /\ monitor.pc = "probe"
       /\ monitor.addr = Some(x)
       /\ monitor'.pc = "update"
       /\ monitor'.ok
    \/ /\ SyncStep
       /\ sync_task.base = Some(x)
       /\ sync_task'.pc = "register"

\* C20: if from some point on no probe of peer x is good and no sync against
\* x succeeds, x is in the end out of the registry for good; a peer leaves
\* the registry by its fifth failed probe in a row, counted from
\* failures = 0.
C20_PeerReaping ==
    /\ \A x \in {BaseB, BaseC} :
          <>[][~Revives(x)]_vars => <>[](x \notin DOMAIN s.peers)
    /\ [][\A x \in DOMAIN s.peers \ DOMAIN s'.peers :
             /\ MonitorUpdateStep
             /\ monitor.addr = Some(x)
             /\ ~monitor.ok
             /\ s.peers[x].failures = FailureLimit - 1]_vars

\* C21: whenever the state lock is free, every peer of the registry has a
\* failures counter in 0..4; the counter does not wrap around and stays
\* far from 255, under every interleaving of probes and syncs.
C21_FailuresBelowLimit ==
    lock = "none" =>
        \A x \in DOMAIN s.peers :
            /\ s.peers[x].failures \in 0..(FailureLimit - 1)
            /\ s.peers[x].failures < U8Max

C21_Witness ==
    /\ lock = "none"
    /\ BaseB \in DOMAIN s.peers
    /\ s.peers[BaseB].failures = FailureLimit - 1
    /\ BaseC \in DOMAIN s.peers
    /\ s.peers[BaseC].failures = 0
    /\ sync_task.pc = "post"
    /\ monitor.pc = "probe"
(***************************************************************************)
(* Properties of moderation, checked under ModSpec.                        *)
(***************************************************************************)
\* C22: every label that post_labels assigns to a post is a key of
\* label_definitions, in every reachable state.
C22_LabelsFromDictionary ==
    \A p \in DOMAIN s.post_labels : s.post_labels[p] \in DOMAIN s.label_definitions
\* the states one more report request leads to: the queue of s with up to two
\* more reports, whose ids are not in the queue
AfterReport ==
    {s} \cup
    { moderation_report(s, headers, reports,
                        << MaxReports + 1, MaxReports + 2 >>, now).s :
        headers \in ReportHeaders, reports \in ReportBatches }

RemoveAt(queue, i) == SubSeq(queue, 1, i - 1) \o SubSeq(queue, i + 1, Len(queue))

AcceptRule(st, action) ==
    LET r == admin_accept_report(st, Some("pw"), action)
        queue == st.moderation_reports
        hits == { i \in 1..Len(queue) : queue[i].id = action.report_id }
    IN IF hits = {}
       THEN /\ r.status = 404
            /\ r.s.moderation_reports = queue
            /\ r.s.post_labels = st.post_labels
       ELSE \E i \in hits :
            /\ r.status = 200
            /\ r.s.moderation_reports = RemoveAt(queue, i)
            /\ IF IsSome(action.label)
               THEN /\ DOMAIN r.s.post_labels =
                           DOMAIN st.post_labels \cup {queue[i].post.id}
                    /\ r.s.post_labels[queue[i].post.id] = action.label[1]
                    /\ \A p \in DOMAIN st.post_labels \ {queue[i].post.id} :
                           r.s.post_labels[p] = st.post_labels[p]
               ELSE r.s.post_labels = st.post_labels

\* C23: an authorized accept of {report_id, label?} answers 404 and leaves the
\* queue and post_labels alone when no queued report has that id; otherwise it
\* removes that report, keeps every other report in its original order, and
\* sets post_labels[report.post.id] to the label exactly when one is given.
C23_AcceptReport ==
    \A st \in AfterReport :
        \A report_id \in 0..(MaxReports + 2),
           label \in {None} \cup { Some(n) : n \in LabelNames } :
            AcceptRule(st, [report_id |-> report_id, label |-> label])

\* an accept with a label has acted and two reports are still queued, so that
\* one more report makes a queue of three
C23_Witness ==
    /\ Len(s.moderation_reports) = MaxReports
    /\ s.moderation_reports[1].post.id # s.moderation_reports[2].post.id
    /\ DOMAIN s.post_labels = {EnvA1.id}
    /\ s.post_labels[EnvA1.id] = "spam"
\* the orders a rewrite of the label file can take after the request
OrdersAfter(defs) == Arrangements(DOMAIN defs, Cardinality(DOMAIN defs))

AddDuplicateRule(label) ==
    label.label \in DOMAIN s.label_definitions =>
        \A order \in OrdersAfter(s.label_definitions) :
            LET r == admin_add_label(s, labels_json, Some("pw"), label, order)
            IN /\ r.status = 400
               /\ r.s.label_definitions = s.label_definitions
               /\ r.s.label_definitions[label.label] = s.label_definitions[label.label]

DeleteLabelRule(label) ==
    \A order \in OrdersAfter(MapRemove(s.label_definitions, label)) :
        LET r == admin_delete_label(s, labels_json, Some("pw"), label, order)
        IN /\ label \notin DOMAIN r.s.label_definitions
           /\ \A p \in DOMAIN s.post_labels :
                  IF s.post_labels[p] = label
                  THEN p \notin DOMAIN r.s.post_labels
                  ELSE /\ p \in DOMAIN r.s.post_labels
                       /\ r.s.post_labels[p] = s.post_labels[p]
           /\ DOMAIN r.s.post_labels \subseteq DOMAIN s.post_labels

\* C24: adding a label whose name exists answers 400 and leaves
\* label_definitions, the existing description included, unchanged; deleting
\* a label removes it from label_definitions and removes the post_labels
\* entries whose value is that label, and no other entry.
C24_LabelDictionary ==
    /\ \A label \in LabelSamples : AddDuplicateRule(label)
    /\ \A label \in LabelNames : DeleteLabelRule(label)

\* spam is defined with description d1, so that adding spam with d2 is a
\* duplicate, and two posts carry different labels, so that deleting spam
\* strips one and leaves the other
C24_Witness ==
    /\ DOMAIN s.label_definitions = {"spam", "nsfw"}
    /\ s.label_definitions["spam"] = "d1"
    /\ DOMAIN s.post_labels = {EnvA1.id, EnvB1.id}
    /\ s.post_labels[EnvA1.id] = "spam"
    /\ s.post_labels[EnvB1.id] = "nsfw"
    /\ IsSome(labels_json)
\* the credentials that do not authorize: none, and a password that is not
\* in admin_passwords
Unauthorized(st) ==
    {None} \cup { Some(p) : p \in { q \in Passwords : ~is_admin(st, q) } }

\* the answer r of an admin operation is a refusal that changed nothing
Refused(r) == r.status = 401 /\ r.s = s

\* C29: every admin operation called with no credential or with a password
\* that is not in admin_passwords answers 401, leaves the report queue,
\* post_labels, label_definitions, karma_codes and karma_votes unchanged, and
\* discloses no reports.
C29_AdminAuth ==
    \A credential \in Unauthorized(s) :
        /\ Refused(admin_reports_route(s, [password |-> credential]))
        /\ admin_reports_route(s, [password |-> credential]).out = None
        /\ \A action \in AcceptActions :
               Refused(admin_accept_report(s, credential, action))
        /\ \A report_id \in ReportIds :
               Refused(admin_delete_report(s, credential, report_id))
        /\ \A label \in LabelSamples :
               /\ Refused(admin_add_label(s, labels_json, credential, label, << >>))
               /\ admin_add_label(s, labels_json, credential, label, << >>).labels_json
                      = labels_json
        /\ \A label \in LabelNames :
               /\ Refused(admin_delete_label(s, labels_json, credential, label, << >>))
               /\ admin_delete_label(s, labels_json, credential, label, << >>).labels_json
                      = labels_json
        /\ \A req \in GenerateRequests :
             \A raws \in [1..Max(req.count, 1) -> RawSamples] :
               /\ Refused(admin_generate_karma_codes(s, credential, req, raws))
               /\ Refused(admin_generate_karma_codes_text(s, credential, req, raws))
UpperAlphanumerics ==
    {"0", "1", "2", "3", "4", "5", "6", "7", "8", "9",
     "A", "B", "C", "D", "E", "F", "G", "H", "I", "J", "K", "L", "M",
     "N", "O", "P", "Q", "R", "S", "T", "U", "V", "W", "X", "Y", "Z"}

\* five uppercase alphanumerics, a hyphen, five uppercase alphanumerics
CodeForm(code) ==
    /\ Len(code) = 11
    /\ code[6] = "-"
    /\ \A i \in (1..5) \cup (7..11) : code[i] \in UpperAlphanumerics

\* codes is the list of codes the request returned and st the state it left
GenerationRule(req, codes, st) ==
    /\ Len(codes) = Max(req.count, 1)
    /\ \A i \in 1..Len(codes) :
          /\ CodeForm(codes[i])
          /\ codes[i] \in DOMAIN st.karma_codes
          /\ st.karma_codes[codes[i]].vote_type = None
          /\ st.karma_codes[codes[i]].current_post = None
          /\ st.karma_codes[codes[i]].used_direction = None
    /\ \A c \in DOMAIN s.karma_codes :
          c \in DOMAIN st.karma_codes /\ st.karma_codes[c] = s.karma_codes[c]
    /\ st.karma_votes = s.karma_votes

\* C25: an authorized generation with count n returns max(n, 1) codes of the
\* form XXXXX-XXXXX, each registered unspent with vote_type, current_post and
\* used_direction absent whatever vote_type was asked for, and changes no
\* existing code and no score.
C25_Generation ==
    \A req \in GenerateRequests :
        \A raws \in [1..Max(req.count, 1) -> RawSamples] :
            LET r == admin_generate_karma_codes(s, Some("pw"), req, raws)
                t == admin_generate_karma_codes_text(s, Some("pw"), req, raws)
            IN /\ r.status = 200
               /\ GenerationRule(req, r.out, r.s)
               /\ t.status = 200
               /\ Head(t.out) = req.issuer
               /\ GenerationRule(req, Tail(t.out), t.s)
(***************************************************************************)
(* Properties of validation, checked under EdgeSpec.                       *)
(***************************************************************************)
\* what validation says at the clock now of the post data of key KA
EdgeVerdict(data) ==
    validate_envelope(SignedEnvelope("KA", fingerprint("KA"), data), now)

EdgeOf(text, latitude, longitude, date) ==
    EdgeVerdict(PostJsonAt(fingerprint("KA"), text, latitude, longitude, date))

\* the posts that inbox has put in the index
Indexed == { s.memory[id].data.json[1] : id \in DOMAIN s.memory }

\* C26: latitude exactly 90 or -90 and longitude exactly 180 or -180 are
\* accepted and values beyond them rejected; a date exactly now + 5 minutes is
\* accepted and one second later rejected; text that is empty after trimming is
\* rejected.  Nothing beyond the bounds is in the index.
C26_ValidationBounds ==
    /\ EdgeOf(Hi, 90 * LatScale, 0, 0) = "Ok"
    /\ EdgeOf(Hi, -90 * LatScale, 0, 0) = "Ok"
    /\ EdgeOf(Hi, 0, 180 * LatScale, 0) = "Ok"
    /\ EdgeOf(Hi, 0, -180 * LatScale, 0) = "Ok"
    /\ \A beyond \in 1..2 :
          /\ EdgeOf(Hi, 90 * LatScale + beyond, 0, 0) = "InvalidPostData"
          /\ EdgeOf(Hi, -90 * LatScale - beyond, 0, 0) = "InvalidPostData"
          /\ EdgeOf(Hi, 0, 180 * LatScale + beyond, 0) = "InvalidPostData"
          /\ EdgeOf(Hi, 0, -180 * LatScale - beyond, 0) = "InvalidPostData"
    /\ EdgeOf(Hi, 0, 0, now + FutureTolerance) = "Ok"
    /\ EdgeOf(Hi, 0, 0, now + FutureTolerance + 1) = "InvalidPostData"
    /\ EdgeOf(<< >>, 0, 0, 0) = "InvalidPostData"
    /\ EdgeOf(<< " " >>, 0, 0, 0) = "InvalidPostData"
    /\ EdgeOf(<< "\t", " ", "\n" >>, 0, 0, 0) = "InvalidPostData"
    /\ EdgeOf(<< " ", "h", " " >>, 0, 0, 0) = "Ok"
    /\ \A post \in Indexed :
          /\ post.latitude \in (-90 * LatScale)..(90 * LatScale)
          /\ post.longitude \in (-180 * LatScale)..(180 * LatScale)
          /\ post.date <= now + FutureTolerance
          /\ ~trim_is_empty(post.text)

\* inbox has indexed a post at latitude 90 and, at clock 1, a post dated
\* exactly five minutes ahead of it
C26_Witness ==
    /\ now = 1
    /\ fingerprint("KA") \in DOMAIN s.memory
    /\ s.memory[fingerprint("KA")].data.json[1].latitude = 90 * LatScale
    /\ fingerprint("KB") \in DOMAIN s.memory
    /\ s.memory[fingerprint("KB")].data.json[1].date = 1 + FutureTolerance
(***************************************************************************)
(* More properties of the karma engine, checked under KarmaSpec.           *)
(***************************************************************************)
\* a code that no generation returns
UnknownCode == << "N", "O", "N", "E", "0", "-", "N", "O", "N", "E", "0" >>

\* the status of a vote with a valid envelope of post a1 on the code
VoteStatus(code, direction) == karma_vote(s, code, EnvA1, direction, now).status

\* C27: a vote that ends in an error (404, 400 for an invalid envelope, 410,
\* 409, 400 for the wrong direction) leaves karma_codes and karma_votes as
\* they were: no code becomes spent, no vote_type is set, no score entry is
\* created or changed.
C27_VoteErrorsChangeNothing ==
    \A code \in CodeSamples \cup {UnknownCode},
       envelope \in VoteEnvelopes, direction \in Directions :
        LET r == karma_vote(s, code, envelope, direction, now) IN
        /\ r.status \in {200, 400, 404, 409, 410}
        /\ r.status # 200 =>
              /\ r.s.karma_codes = s.karma_codes
              /\ r.s.karma_votes = s.karma_votes

\* before any code expires one code is spent, so that a vote on it answers
\* 409, and the other is unspent and locked to a direction, so that a vote the
\* other way answers 400
C27_Witness ==
    /\ now = 0
    /\ \E c1 \in Codes(s), c2 \in Codes(s) :
          /\ IsSome(s.karma_codes[c1].current_post)
          /\ \E d \in Directions : VoteStatus(c1, d) = 409
          /\ ~IsSome(s.karma_codes[c2].current_post)
          /\ \E d \in Directions : VoteStatus(c2, d) = 400
    /\ VoteStatus(UnknownCode, "upvote") = 404
\* the change a revoke owes to the score of the post the code is spent on
InverseDelta(karma_code) ==
    IF karma_code.used_direction = Some("upvote") THEN -1 ELSE 1

RevokeRule(code) ==
    LET r1 == karma_revoke(s, code)
        r2 == karma_revoke(r1.s, code)
    IN IF code \notin Codes(s)
       THEN r1.status = 404 /\ r1.s = s
       ELSE /\ r1.status = 200
            /\ r2.status = 200
            /\ r2.s = r1.s
            /\ ~IsSome(r1.s.karma_codes[code].current_post)
            /\ ~IsSome(r1.s.karma_codes[code].used_direction)
            /\ IF ~IsSome(s.karma_codes[code].current_post)
               THEN r1.s.karma_votes = s.karma_votes
               ELSE LET p == s.karma_codes[code].current_post[1] IN
                    /\ DOMAIN r1.s.karma_votes = DOMAIN s.karma_votes
                    /\ r1.s.karma_votes[p] =
                           s.karma_votes[p] + InverseDelta(s.karma_codes[code])
                    /\ \A q \in DOMAIN s.karma_votes \ {p} :
                           r1.s.karma_votes[q] = s.karma_votes[q]

\* C28: revoke of an unknown code answers 404 and changes nothing; revoke of
\* a known unspent code succeeds and changes no score; revoking a spent code
\* twice changes the score of its post by exactly one inverse delta; and all
\* of it holds for a code that has expired.
C28_Revoke ==
    \A code \in CodeSamples \cup {UnknownCode} : RevokeRule(code)

\* after a revoke: a code spent on a post has expired, and the other code is
\* unspent
C28_Witness ==
    /\ now = 1
    /\ last.op = "revoke"
    /\ \E c1 \in Codes(s), c2 \in Codes(s) :
          /\ IsSome(s.karma_codes[c1].current_post)
          /\ s.karma_codes[c1].expires < now
          /\ s.karma_codes[c1].current_post[1] \in DOMAIN s.karma_votes
          /\ ~IsSome(s.karma_codes[c2].current_post)
====
